---- MODULE Spec2Model ----
(***************************************************************************)
(* A model of the OpenCode dashboard: the Anthropic OAuth/PKCE login flow  *)
(* (lib/anthropic-auth, lib/auth-service, components/AnthropicAuth), the   *)
(* provider status UI (components/AuthStatus), the HTTP/SSE relay          *)
(* (index.tsx) and the chat widget (components/AiChat).                    *)
(*                                                                         *)
(* Each subsystem has its own next-state relation and specification        *)
(* (SpecAuth, SpecStatus, SpecRelay, SpecChat); the variables of the other *)
(* subsystems stay at their initial values.                                *)
(***************************************************************************)
EXTENDS Integers, Sequences, FiniteSets, TLC

VARIABLES
    \* ---- browser session storage and the Anthropic login flow ----
    storage,        \* sessionStorage: key -> value or Absent
    authVariant,    \* which AnthropicAuth component is built: "manual" | "popup"
    authUi,         \* useState values of the mounted AnthropicAuth component
    startCall,      \* the handleStartAuth call awaiting startAnthropicAuth
    flow,           \* the completeAnthropicAuth call in flight (or the last one)
    starts,         \* login attempts started so far (bounded by MaxStarts)
    \* ---- the provider status UI (AuthStatus) ----
    statusVariant,  \* which AuthStatus component is built: "dynamic" | "static"
    modal,          \* showAuthModal: [show, provider]
    providers,      \* useState providers
    loading,        \* useState loading
    statusError,    \* useState error ("" for null)
    fetching,       \* GET /api/opencode/config/providers requests in flight
    clearing,       \* DELETE /api/opencode/auth/{id} requests in flight, per id
    refreshTimers,  \* pending setTimeout(fetchProviders, 500) of handleAuthSuccess
    net,            \* requests the status UI has issued, by kind
    clicks,         \* user actions on the status UI so far (bounded)
    \* ---- the relay (index.tsx), one request at a time ----
    relPc,          \* "idle" | "fetching" | "done" | "streaming"
    relReq,         \* the browser's request being handled
    relUp,          \* the upstream requests issued for it, in order
    relAns,         \* the upstream's answer to it
    relResp,        \* the relay's response to it
    \* ---- the chat widget (AiChat) and the server behind it ----
    mounted,        \* the widget instance is mounted
    messages,       \* useState messages: the transcript
    input,          \* useState input
    isLoading,      \* useState isLoading
    sessionId,      \* useState sessionId (NullId for null)
    eventSourceRef, \* eventSourceRef.current: index into sources, 0 for null
    sources,        \* the EventSource objects this instance has created
    creating,       \* createSession calls awaiting their POST
    posts,          \* sendMessage calls awaiting their POST
    timers,         \* pending setTimeout polls (fallback 2000 ms, idle 500 ms)
    polls,          \* fetchLatestMessages calls awaiting their GET
    turns,          \* history: one record per accepted send
    onErrors,       \* calls of the onError prop so far
    localIds,       \* messages created locally so far (their Date.now() ids)
    srvMsgs,        \* the server's message list of each session
    issued,         \* session ids the server has returned so far
    acts,           \* user actions and server events so far (bounded by MaxActs)
    \* ---- the dashboard (App) ----
    error,          \* useState error: the banner's text ("" for null)
    errorTimers,    \* pending setTimeout(() => setError(null), 5000): due times
    now,            \* the time, in ms since the page was loaded
    raised,         \* history: the calls of handleChatError, [msg, at]
    \* ---- history ----
    lastOp,         \* the handler or continuation that ran last
    lastArg         \* its argument, where it has one

authVars == <<storage, authVariant, authUi, startCall, flow, starts>>

\* The status UI's variables that the login flow never writes.
statusRest == <<statusVariant, providers, fetching, clearing, net, clicks>>

relayVars == <<relPc, relReq, relUp, relAns, relResp>>

chatVars == <<mounted, messages, input, isLoading, sessionId, eventSourceRef, sources,
              creating, posts, timers, polls, turns, onErrors,
              localIds, srvMsgs, issued, acts>>

appVars == <<error, errorTimers, now, raised>>

\* Every handler of the login and status UIs leaves the relay, the chat
\* widget and the dashboard's banner alone.
uiFrame == <<relayVars, chatVars, appVars>>

vars == <<storage, authVariant, authUi, startCall, flow, starts,
          statusVariant, modal, providers, loading, statusError, fetching,
          clearing, refreshTimers, net, clicks,
          relPc, relReq, relUp, relAns, relResp,
          mounted, messages, input, isLoading, sessionId, eventSourceRef, sources,
          creating, posts, timers, polls, turns, onErrors,
          localIds, srvMsgs, issued, acts,
          error, errorTimers, now, raised, lastOp, lastArg>>

(***************************************************************************)
(* Values                                                                  *)
(***************************************************************************)
Absent == "<absent>"          \* sessionStorage.getItem(...) === null
Undefined == "<undefined>"    \* a missing JSON field / optional property

\* JavaScript numbers that may be undefined or NaN (the expires field).
JsUndef == [kind |-> "undefined", val |-> 0]
JsNaN == [kind |-> "nan", val |-> 0]
JsNum(n) == [kind |-> "num", val |-> n]

Methods == {"claude-pro", "api-key"}
Verifiers == {"v1", "v2"}

\* Authorization codes as the user pastes them: characters, "#" separating
\* the code from the state.
Codes == { <<"c">>, <<"c", "#", "s">> }

StorageKeys == {"anthropic_verifier", "anthropic_method"}

EmptyStorage == [k \in StorageKeys |-> Absent]

\* String.prototype.split("#"): the pieces between the separators.
RECURSIVE SplitHash(_, _, _)
SplitHash(s, cur, acc) ==
    IF s = <<>> THEN Append(acc, cur)
    ELSE IF Head(s) = "#" THEN SplitHash(Tail(s), <<>>, Append(acc, cur))
    ELSE SplitHash(Tail(s), Append(cur, Head(s)), acc)

Split(code) == SplitHash(code, <<>>, <<>>)

\* splits[i] (0-based in the source), undefined past the end.
UndefinedPiece == <<Undefined>>

Piece(splits, i) == IF i + 1 <= Len(splits) THEN splits[i + 1] ELSE UndefinedPiece

\* A test that takes every value, also a missing one, for truthy.
Truthy_Always(v) == TRUE

\* JavaScript truthiness of an optional string and of an optional number.
Truthy(v) == v \notin {Undefined, "", Absent}

TruthyNum(n) == n.kind = "num" /\ n.val # 0

(***************************************************************************)
(* PKCE generation and the authorization URL                               *)
(***************************************************************************)
\* generatePKCE() of @openauthjs/openauth: the S256 challenge of the verifier.
Sha256(v) == "S256:" \o v

generatePKCE(v) == [verifier |-> v, challenge |-> Sha256(v), method |-> "S256"]

generatePKCEFallback(v) == [verifier |-> v, challenge |-> v, method |-> "plain"]

\* secure = FALSE: generatePKCE threw (crypto.subtle unavailable).
safePKCEGenerate(v, secure) ==
    IF secure THEN generatePKCE(v) ELSE generatePKCEFallback(v)

getAuthorizationUrl(method, v, secure) ==
    LET mode == IF method = "claude-pro" THEN "max" ELSE "console"
        pkce == safePKCEGenerate(v, secure)
    IN  [url |-> [host |-> IF mode = "console" THEN "console.anthropic.com"
                                               ELSE "claude.ai",
                  code_challenge |-> pkce.challenge,
                  code_challenge_method |-> "S256",
                  state |-> pkce.verifier],
         verifier |-> pkce.verifier]

(***************************************************************************)
(* AnthropicAuth.exchangeCode / storeCredentials / completeOAuthFlow        *)
(***************************************************************************)
\* An ExchangeResult; absent optional fields are undefined.
FailedResult ==
    [type |-> "failed", refresh |-> Undefined, access |-> Undefined,
     expires |-> JsUndef, key |-> Undefined]

PendingResult == [FailedResult EXCEPT !.type = "pending"]

\* Date.now() at the time of the exchange.
Now == 1000

\* What the token endpoint (through the relay) can answer: the request
\* throws, or a response arrives, 2xx or not, whose body parses or not.
HttpOutcomes == {"throw", "non2xx", "ok"}

TokenJsons ==
    { [valid |-> TRUE, refresh_token |-> "r", access_token |-> "a",
       expires_in |-> JsNum(3600)],
      [valid |-> TRUE, refresh_token |-> Undefined, access_token |-> "a",
       expires_in |-> JsNum(3600)],
      [valid |-> TRUE, refresh_token |-> "r", access_token |-> "a",
       expires_in |-> JsUndef],
      [valid |-> FALSE, refresh_token |-> Undefined, access_token |-> Undefined,
       expires_in |-> JsUndef] }

KeyJsons ==
    { [valid |-> TRUE, raw_key |-> "k"],
      [valid |-> TRUE, raw_key |-> Undefined],
      [valid |-> FALSE, raw_key |-> Undefined] }

\* Date.now() + json.expires_in * 1000
Expires(expires_in) ==
    IF expires_in.kind = "num" THEN JsNum(Now + expires_in.val * 1000) ELSE JsNaN

\* The body of the POST to /api/anthropic/oauth/token (lines 123-130).
TokenRequest(code, verifier) ==
    LET splits == Split(code)
    IN  [code |-> Piece(splits, 0), state |-> Piece(splits, 1),
         grant_type |-> "authorization_code", code_verifier |-> verifier]

\* exchangeCode from the answer of the token endpoint on (lines 133-172):
\* next = "return" with the result, or next = "apikey" when the api-key
\* endpoint is requested with json.access_token.
ExchangeAfterToken(method, out, json) ==
    IF out = "throw" THEN [next |-> "return", result |-> FailedResult]
    ELSE IF out = "non2xx" THEN [next |-> "return", result |-> FailedResult]
    ELSE IF ~json.valid THEN [next |-> "return", result |-> FailedResult]
    ELSE IF method = "claude-pro" THEN
        [next |-> "return",
         result |-> [type |-> "success", refresh |-> json.refresh_token,
                     access |-> json.access_token,
                     expires |-> Expires(json.expires_in), key |-> Undefined]]
    ELSE IF method = "api-key" THEN [next |-> "apikey", result |-> PendingResult]
    ELSE [next |-> "return", result |-> FailedResult]

\* Mutant: the api-key answer's status is not checked.
ExchangeAfterApiKey_Unchecked(out, json) ==
    IF out = "throw" THEN FailedResult
    ELSE [type |-> "success", refresh |-> Undefined, access |-> Undefined,
          expires |-> JsUndef, key |-> json.raw_key]

\* exchangeCode from the answer of the api-key endpoint on (lines 161-176).
ExchangeAfterApiKey(out, json) ==
    IF out = "throw" THEN FailedResult
    ELSE IF out = "non2xx" THEN FailedResult
    ELSE IF ~json.valid THEN FailedResult
    ELSE [type |-> "success", refresh |-> Undefined, access |-> Undefined,
          expires |-> JsUndef, key |-> json.raw_key]

\* storeCredentials up to its fetch (lines 183-205): the body of the PUT, or
\* NoBody when it returns false without a request.
NoBody == [type |-> "none", key |-> Undefined, refresh |-> Undefined,
           access |-> Undefined, expires |-> JsUndef]

StoreBody(result) ==
    IF result.type = "failed" THEN NoBody
    ELSE IF Truthy(result.key) THEN
        [NoBody EXCEPT !.type = "api", !.key = result.key]
    ELSE IF Truthy(result.refresh) /\ Truthy(result.access)
            /\ TruthyNum(result.expires) THEN
        [NoBody EXCEPT !.type = "oauth", !.refresh = result.refresh,
                       !.access = result.access, !.expires = result.expires]
    ELSE NoBody

\* A storeCredentials that does not look at the answer to its PUT.
StoreAfterPut_Always(out) == TRUE

\* storeCredentials from the answer to its PUT on (lines 216-229).
StoreAfterPut(out) == out = "ok"

(***************************************************************************)
(* The login flow: state                                                   *)
(***************************************************************************)
NoUrl == [host |-> "", code_challenge |-> "", code_challenge_method |-> "",
          state |-> ""]

\* useState initial values of AnthropicAuth (both variants).
InitAuthUi ==
    [authUrl |-> NoUrl, isAuthenticating |-> FALSE, isLoading |-> FALSE,
     message |-> "", error |-> ""]

NoStart == [active |-> FALSE, live |-> FALSE, method |-> "claude-pro"]

NoResult == [success |-> FALSE, error |-> "", message |-> ""]

IdleFlow ==
    [pc |-> "idle", live |-> FALSE, called |-> FALSE, code |-> <<>>,
     verifier |-> Absent, method |-> Absent,
     tokenCalls |-> 0, apiKeyCalls |-> 0, putCalls |-> 0,
     tokenOut |-> "none", keyOut |-> "none", putOut |-> "none",
     tokenReq |-> TokenRequest(<<>>, Absent),
     exchange |-> PendingResult, putBody |-> NoBody,
     oauthDone |-> "none", ret |-> NoResult]

\* Login attempts one behaviour starts.
MaxStarts == 2

clearMessages(ui) == [ui EXCEPT !.message = "", !.error = ""]

\* sessionStorage.removeItem of both keys.
RemoveKeys(st) ==
    [st EXCEPT !["anthropic_verifier"] = Absent, !["anthropic_method"] = Absent]

(***************************************************************************)
(* AuthStatus: provider list                                               *)
(***************************************************************************)
ProviderIds == {"anthropic", "openai"}

\* Providers in one answer of /config/providers.
MaxProviders == 2

Provider == [id : ProviderIds, authenticated : BOOLEAN]

RECURSIVE SeqsUpTo(_, _)
SeqsUpTo(S, n) ==
    IF n = 0 THEN {<<>>}
    ELSE LET shorter == SeqsUpTo(S, n - 1)
         IN  shorter \cup {Append(q, x) : q \in {r \in shorter : Len(r) = n - 1}, x \in S}

\* The server lists each provider once.
DistinctIds(q) == \A i, j \in 1..Len(q) : q[i].id = q[j].id => i = j

\* Bodies of a 2xx answer: invalid JSON, an object without a providers
\* field, or an object with a provider list.
ProviderBodies ==
    {[valid |-> FALSE, hasList |-> FALSE, list |-> <<>>],
     [valid |-> TRUE, hasList |-> FALSE, list |-> <<>>]}
    \cup {[valid |-> TRUE, hasList |-> TRUE, list |-> l] :
            l \in {q \in SeqsUpTo(Provider, MaxProviders) : DistinctIds(q)}}

\* The AnthropicAuth child of the modal is rendered: the modal shows the
\* anthropic provider and AuthStatus renders its main card (the provider-list
\* version renders a spinner or an error card instead while loading or failed).
ChildMounted ==
    /\ modal.show /\ modal.provider = "anthropic"
    /\ statusVariant = "static" \/ (~loading /\ statusError = "")

NoModal == [show |-> FALSE, provider |-> "none"]

\* fetchProviders up to its await (lines 34-38). The spinner replaces the
\* card, so a rendered AnthropicAuth child unmounts and calls in flight lose
\* their component.
fetchProviders ==
    /\ loading' = TRUE
    /\ statusError' = ""
    /\ fetching' = fetching + 1
    /\ net' = [net EXCEPT !.getProviders = @ + 1]
    /\ authUi' = InitAuthUi
    /\ startCall' = [startCall EXCEPT !.live = FALSE]
    /\ flow' = [flow EXCEPT !.live = FALSE]

\* fetchProviders from the answer on (lines 40-64).
FetchProvidersResponse(out, body) ==
    /\ statusVariant = "dynamic"
    /\ fetching > 0
    /\ fetching' = fetching - 1
    /\ IF out = "ok" /\ body.valid
       THEN /\ providers' = IF body.hasList THEN body.list ELSE <<>>
            /\ UNCHANGED statusError
       ELSE /\ statusError' = IF out = "non2xx" THEN "HTTP error! status"
                              ELSE "fetch failed"
            /\ UNCHANGED providers
    /\ loading' = FALSE
    /\ lastOp' = "fetchProvidersResponse"
    /\ lastArg' = IF out # "ok" THEN out
                  ELSE IF ~body.valid THEN "badjson"
                  ELSE IF ~body.hasList THEN "noProviders"
                  ELSE "ok"
    /\ UNCHANGED uiFrame
    /\ UNCHANGED <<authVars, statusVariant, modal, clearing, refreshTimers, net,
                   clicks>>

\* A count that does not look at the authenticated flag.
authenticatedCount_Unfiltered == Len(providers)

\* What the main card shows: "{authenticatedCount} of {totalCount} providers
\* authenticated".
authenticatedCount == Len(SelectSeq(providers, LAMBDA p : p.authenticated))

totalCount == Len(providers)

\* User actions on the status UI in one behaviour.
MaxClicks == 3

\* The Refresh Status button (main card) or the Retry button (error card).
RefreshClick ==
    /\ statusVariant = "dynamic"
    /\ ~loading
    /\ ~modal.show \/ statusError # ""
    /\ clicks < MaxClicks
    /\ clicks' = clicks + 1
    /\ fetchProviders
    /\ lastOp' = "refreshClick"
    /\ lastArg' = ""
    /\ UNCHANGED uiFrame
    /\ UNCHANGED <<storage, authVariant, starts, statusVariant, modal, providers,
                   clearing, refreshTimers>>

\* The timer of handleAuthSuccess fires: fetchProviders().
RefreshTimerFire ==
    /\ refreshTimers > 0
    /\ refreshTimers' = refreshTimers - 1
    /\ fetchProviders
    /\ lastOp' = "refreshTimerFire"
    /\ lastArg' = ""
    /\ UNCHANGED uiFrame
    /\ UNCHANGED <<storage, authVariant, starts, statusVariant, modal, providers,
                   clearing, clicks>>

\* The ids whose Clear button is rendered.
Clearable ==
    IF statusVariant = "static" THEN ProviderIds
    ELSE IF loading \/ statusError # "" THEN {}
    ELSE {providers[i].id : i \in {j \in 1..Len(providers) : providers[j].authenticated}}

\* Mutant: clearAuth sends its DELETE a second time.
clearAuth_Twice(nt, id) == [nt EXCEPT !.delete[id] = @ + 2]

\* AuthService.clearAuth up to its await (part_003 lines 153-158): one DELETE
\* to /api/opencode/auth/{id}.
clearAuth(nt, id) == [nt EXCEPT !.delete[id] = @ + 1]

\* handleClearAuth up to its await.
HandleClearAuth(id) ==
    /\ id \in Clearable
    /\ ~modal.show
    /\ clicks < MaxClicks
    /\ clicks' = clicks + 1
    /\ clearing' = [clearing EXCEPT ![id] = @ + 1]
    /\ net' = clearAuth(net, id)
    /\ lastOp' = "handleClearAuth"
    /\ lastArg' = id
    /\ UNCHANGED uiFrame
    /\ UNCHANGED <<authVars, statusVariant, modal, providers, loading, statusError,
                   fetching, refreshTimers>>

\* clearAuth returns (it never throws) and handleClearAuth continues: the
\* provider-list version calls fetchProviders(), the static one only logs.
ClearAuthResponse(id, out) ==
    /\ clearing[id] > 0
    /\ clearing' = [clearing EXCEPT ![id] = @ - 1]
    /\ IF statusVariant = "dynamic"
       THEN fetchProviders
       ELSE UNCHANGED <<loading, statusError, fetching, net, authUi, startCall, flow>>
    /\ lastOp' = "clearAuthResponse"
    /\ lastArg' = out
    /\ UNCHANGED uiFrame
    /\ UNCHANGED <<storage, authVariant, starts, statusVariant, modal, providers,
                   refreshTimers, clicks>>

\* handleAuthClick: the Authenticate / Configure button of a provider.
HandleAuthClick(id) ==
    /\ ~modal.show
    /\ IF statusVariant = "static" THEN TRUE
       ELSE /\ ~loading /\ statusError = ""
            /\ \E i \in 1..Len(providers) :
                 providers[i].id = id /\ ~providers[i].authenticated
    /\ modal' = [show |-> TRUE, provider |-> id]
    /\ authUi' = InitAuthUi
    /\ lastOp' = "handleAuthClick"
    /\ lastArg' = id
    /\ UNCHANGED uiFrame
    /\ UNCHANGED <<storage, authVariant, startCall, flow, starts, statusRest,
                   loading, statusError, refreshTimers>>

\* The modal's close button: setShowAuthModal({show: false, provider: null}).
\* The child unmounts and calls still in flight lose their component.
CloseModal ==
    /\ modal.show
    /\ statusVariant = "static" \/ (~loading /\ statusError = "")
    /\ modal' = NoModal
    /\ authUi' = InitAuthUi
    /\ startCall' = [startCall EXCEPT !.live = FALSE]
    /\ flow' = [flow EXCEPT !.live = FALSE]
    /\ lastOp' = "closeModal"
    /\ lastArg' = ""
    /\ UNCHANGED uiFrame
    /\ UNCHANGED <<storage, authVariant, starts, statusRest, loading, statusError,
                   refreshTimers>>

\* handleAuthSuccess, as the modal's child calls it (onAuthSuccess): the modal
\* closes, which unmounts the child, and the provider-list version schedules
\* fetchProviders after 500 ms.
handleAuthSuccess ==
    /\ modal' = NoModal
    /\ authUi' = InitAuthUi
    /\ startCall' = [startCall EXCEPT !.live = FALSE]
    /\ refreshTimers' = IF statusVariant = "dynamic" THEN refreshTimers + 1
                        ELSE refreshTimers

(***************************************************************************)
(* AuthService.startAnthropicAuth and the components' handleStartAuth      *)
(***************************************************************************)
\* What no handler of the login flow writes.
authFrame == <<authVariant, statusRest, loading, statusError>>

Instructions(method) ==
    IF method = "claude-pro" THEN "Log in with your Claude Pro/Max account"
    ELSE "Log in to create an API key"

\* The click on one of the two method buttons: everything before the await.
HandleStartAuth(method) ==
    /\ ChildMounted /\ ~authUi.isLoading /\ ~startCall.active
    /\ IF authVariant = "manual" THEN authUi.authUrl = NoUrl
       ELSE ~authUi.isAuthenticating
    /\ starts < MaxStarts
    /\ starts' = starts + 1
    /\ authUi' = [clearMessages(authUi) EXCEPT
                    !.isLoading = TRUE,
                    !.isAuthenticating = IF authVariant = "popup" THEN TRUE ELSE @]
    /\ startCall' = [active |-> TRUE, live |-> TRUE, method |-> method]
    /\ lastOp' = "handleStartAuth"
    /\ lastArg' = method
    /\ UNCHANGED uiFrame
    /\ UNCHANGED <<storage, flow, modal, refreshTimers, authFrame>>

\* startAnthropicAuth after getAuthorizationUrl resolved (part_003 lines
\* 28-42), and the continuation of the component's handleStartAuth.
StartAuthContinue(v, secure) ==
    /\ startCall.active
    /\ LET authData == getAuthorizationUrl(startCall.method, v, secure)
       IN  /\ storage' = [storage EXCEPT
                            !["anthropic_verifier"] = authData.verifier,
                            !["anthropic_method"] = startCall.method]
           /\ authUi' =
                IF ~startCall.live THEN authUi
                ELSE IF authVariant = "manual" THEN
                    [authUi EXCEPT !.authUrl = authData.url,
                                   !.message = Instructions(startCall.method),
                                   !.isLoading = FALSE]
                ELSE
                    [authUi EXCEPT
                       !.message = "Please complete the authentication in the popup window.",
                       !.isLoading = FALSE]
    /\ startCall' = NoStart
    /\ lastOp' = "startAuthContinue"
    /\ lastArg' = v
    /\ UNCHANGED uiFrame
    /\ UNCHANGED <<flow, starts, modal, refreshTimers, authFrame>>

(***************************************************************************)
(* AuthService.completeAnthropicAuth and the components' handleCompleteAuth *)
(***************************************************************************)
MissingData ==
    [success |-> FALSE, message |-> "",
     error |-> "Missing authentication data. Please restart the authentication process."]

CompleteOk ==
    [success |-> TRUE, error |-> "",
     message |-> "Successfully authenticated with Anthropic Claude"]

CompleteFailed ==
    [success |-> FALSE, message |-> "", error |-> "Failed to complete authentication"]

\* completeAnthropicAuth once completeOAuthFlow returned `success` (part_003
\* lines 76-90): the keys to remove from session storage.
StorageAfterComplete(st, success) == IF success THEN RemoveKeys(st) ELSE st

\* completeAnthropicAuth from the return of completeOAuthFlow on, then the
\* continuation of the component's handleCompleteAuth. `fl` is the call.
CompleteReturn(fl, success) ==
    /\ storage' = StorageAfterComplete(storage, success)
    /\ flow' = [fl EXCEPT !.pc = "idle", !.live = FALSE,
                          !.oauthDone = IF success THEN "true" ELSE "false",
                          !.ret = IF success THEN CompleteOk ELSE CompleteFailed]
    /\ IF success THEN handleAuthSuccess
       ELSE /\ authUi' = IF fl.live
                         THEN [authUi EXCEPT !.error = CompleteFailed.error,
                                             !.isLoading = FALSE]
                         ELSE authUi
            /\ UNCHANGED <<modal, startCall, refreshTimers>>

\* completeOAuthFlow once exchangeCode returned `result` (part_002 lines
\* 241-244): false at once for a failed result, otherwise storeCredentials,
\* which returns false without a request or issues its PUT.
AfterExchange(fl, result) ==
    LET body == StoreBody(result)
        f == [fl EXCEPT !.exchange = result]
    IN  IF result.type = "failed" \/ body.type = "none"
        THEN CompleteReturn(f, FALSE)
        ELSE /\ flow' = [f EXCEPT !.pc = "put", !.putBody = body,
                                  !.putCalls = @ + 1]
             /\ UNCHANGED <<storage, modal, authUi, startCall, refreshTimers>>

\* completeAnthropicAuth up to its await (part_003 lines 57-74); `ui` is the
\* component's state as its handler set it before the call.
CompleteStart(code, ui) ==
    LET verifier == storage["anthropic_verifier"]
        method == storage["anthropic_method"]
    IN  IF ~Truthy(verifier) \/ ~Truthy(method)
        THEN /\ flow' = [IdleFlow EXCEPT !.code = code, !.verifier = verifier,
                                         !.method = method, !.ret = MissingData]
             /\ authUi' = [ui EXCEPT !.error = MissingData.error,
                                     !.isLoading = FALSE]
        ELSE /\ flow' = [IdleFlow EXCEPT
                           !.pc = "token", !.live = TRUE, !.called = TRUE,
                           !.code = code, !.verifier = verifier,
                           !.method = method, !.tokenCalls = 1,
                           !.tokenReq = TokenRequest(code, verifier)]
             /\ authUi' = ui

\* The paste-the-code component: the Complete Authentication button.
HandleCompleteAuthManual(code) ==
    /\ authVariant = "manual" /\ ChildMounted
    /\ authUi.authUrl # NoUrl /\ ~authUi.isLoading
    /\ flow.pc = "idle"
    /\ CompleteStart(code, [clearMessages(authUi) EXCEPT !.isLoading = TRUE])
    /\ lastOp' = "handleCompleteAuth"
    /\ lastArg' = ""
    /\ UNCHANGED uiFrame
    /\ UNCHANGED <<storage, startCall, starts, modal, refreshTimers, authFrame>>

\* The popup component: a same-origin "anthropic-auth" window message.
HandleAuthMessage(code, valid) ==
    /\ authVariant = "popup" /\ ChildMounted
    /\ flow.pc = "idle"
    /\ IF ~valid
       THEN /\ authUi' = [authUi EXCEPT !.error = "Invalid authentication response.",
                                        !.isAuthenticating = FALSE]
            /\ UNCHANGED flow
       ELSE CompleteStart(code,
                [clearMessages(authUi) EXCEPT
                   !.message = "Authentication code received. Verifying...",
                   !.isLoading = TRUE, !.isAuthenticating = FALSE])
    /\ lastOp' = IF valid THEN "handleCompleteAuth" ELSE "invalidAuthMessage"
    /\ lastArg' = ""
    /\ UNCHANGED uiFrame
    /\ UNCHANGED <<storage, startCall, starts, modal, refreshTimers, authFrame>>

\* How a request of exchangeCode ended, as the call's record keeps it:
\* "badjson" for a 2xx answer whose body response.json() rejects.
Outcome(out, json) == IF out = "ok" /\ ~json.valid THEN "badjson" ELSE out

\* The answer of /api/anthropic/oauth/token reaches exchangeCode.
TokenResponse(out, json) ==
    /\ flow.pc = "token"
    /\ LET step == ExchangeAfterToken(flow.method, out, json)
           f == [flow EXCEPT !.tokenOut = Outcome(out, json)]
       IN  IF step.next = "apikey"
           THEN /\ flow' = [f EXCEPT !.pc = "apikey", !.apiKeyCalls = @ + 1]
                /\ UNCHANGED <<storage, modal, authUi, startCall, refreshTimers>>
           ELSE AfterExchange(f, step.result)
    /\ lastOp' = "tokenResponse"
    /\ lastArg' = out
    /\ UNCHANGED uiFrame
    /\ UNCHANGED <<starts, authFrame>>

\* The answer of /api/anthropic/oauth/api-key reaches exchangeCode.
ApiKeyResponse(out, json) ==
    /\ flow.pc = "apikey"
    /\ AfterExchange([flow EXCEPT !.keyOut = Outcome(out, json)],
                     ExchangeAfterApiKey(out, json))
    /\ lastOp' = "apiKeyResponse"
    /\ lastArg' = out
    /\ UNCHANGED uiFrame
    /\ UNCHANGED <<starts, authFrame>>

\* The answer to the PUT /api/opencode/auth/anthropic reaches storeCredentials.
PutResponse(out) ==
    /\ flow.pc = "put"
    /\ CompleteReturn([flow EXCEPT !.putOut = out], StoreAfterPut(out))
    /\ lastOp' = "putResponse"
    /\ lastArg' = out
    /\ UNCHANGED uiFrame
    /\ UNCHANGED <<starts, authFrame>>

(***************************************************************************)
(* Cancelling a login attempt                                              *)
(***************************************************************************)
\* AnthropicAuth.tsx handleCancelAuth (the Cancel button, disabled while loading).
HandleCancelAuth ==
    /\ authVariant = "manual" /\ ChildMounted
    /\ authUi.authUrl # NoUrl /\ ~authUi.isLoading
    /\ authUi' = [clearMessages(authUi) EXCEPT !.authUrl = NoUrl]
    /\ storage' = RemoveKeys(storage)
    /\ lastOp' = "handleCancelAuth"
    /\ lastArg' = ""
    /\ UNCHANGED uiFrame
    /\ UNCHANGED <<startCall, flow, starts, modal, refreshTimers, authFrame>>

\* The popup component's Cancel button: onClick={() => setIsAuthenticating(false)}.
CancelPopup ==
    /\ authVariant = "popup" /\ ChildMounted
    /\ authUi.isAuthenticating
    /\ authUi' = [authUi EXCEPT !.isAuthenticating = FALSE]
    /\ lastOp' = "cancelPopup"
    /\ lastArg' = ""
    /\ UNCHANGED uiFrame
    /\ UNCHANGED <<storage, startCall, flow, starts, modal, refreshTimers, authFrame>>

(***************************************************************************)
(* The relay: the route table of serve() in index.tsx.  The proxy handles  *)
(* one browser request here; each handler is split at its upstream fetch.  *)
(***************************************************************************)
NoHeader == "<absent>"
Json == "application/json"
JsonUtf8 == "application/json;charset=utf-8"
TextPlain == "text/plain"
EventStream == "text/event-stream"


Url(host, path, search) == [host |-> host, path |-> path, search |-> search]

OpencodeUrl(path, search) == Url("http://0.0.0.0:3001", path, search)

\* ---- what a browser can send ----
HttpMethods == {"GET", "POST", "PUT", "DELETE", "HEAD", "OPTIONS"}

ReqPaths == {
    <<"api", "anthropic", "oauth", "token">>,
    <<"api", "anthropic", "oauth", "api-key">>,
    <<"api", "opencode", "auth", "anthropic">>,
    <<"api", "opencode", "session">>,
    <<"api", "opencode", "session", "s1", "message">>,
    <<"api", "opencode", "events">>,
    <<"api", "opencode", "config", "providers">> }

TokenBody == "{\"access_token\":\"t\"}"

\* req.json(): the parsed body, or a throw on text that is not JSON.
JsonValid(text) == text \in {"{}", "{ }", TokenBody}

ParseJson(text) == IF text = TokenBody THEN [access_token |-> "t"] ELSE [access_token |-> Undefined]

\* JSON.stringify of a parsed body: the canonical text.
StringifyJson(obj) == IF obj.access_token = Undefined THEN "{}" ELSE TokenBody

\* ---- the route table: which handler serves a request ----
Route(path) ==
    IF path = <<"api", "anthropic", "oauth", "token">> THEN "oauthToken"
    ELSE IF path = <<"api", "anthropic", "oauth", "api-key">> THEN "oauthApiKey"
    ELSE IF Len(path) = 4 /\ SubSeq(path, 1, 3) = <<"api", "opencode", "auth">> THEN "auth"
    ELSE IF path = <<"api", "opencode", "session">> THEN "session"
    ELSE IF Len(path) = 5 /\ SubSeq(path, 1, 3) = <<"api", "opencode", "session">>
            /\ path[5] = "message" THEN "message"
    ELSE IF path = <<"api", "opencode", "events">> THEN "events"
    ELSE "catchAll"

\* The methods a route object declares; the two function routes take all.
RouteMethods(route) ==
    CASE route = "oauthToken"  -> {"POST", "OPTIONS"}
      [] route = "oauthApiKey" -> {"POST", "OPTIONS"}
      [] route = "auth"        -> {"PUT", "OPTIONS"}
      [] route = "session"     -> {"GET", "POST", "OPTIONS"}
      [] route = "message"     -> {"GET", "POST", "OPTIONS"}
      [] route = "events"      -> HttpMethods
      [] route = "catchAll"    -> HttpMethods

\* The OPTIONS handlers of the route objects answer without an upstream.
AnsweredLocally(req) ==
    req.method = "OPTIONS" /\ Route(req.path) \notin {"events", "catchAll"}

Requests ==
    { r \in [path : ReqPaths, method : HttpMethods, search : {"", "?limit=1"},
             ctype : {NoHeader, Json, TextPlain},
             body : {"", "{}", "{ }", TokenBody}] :
        /\ r.method \in RouteMethods(Route(r.path))
        /\ (r.method \in {"GET", "HEAD", "OPTIONS"} => r.body = "" /\ r.ctype = NoHeader) }

NoUpBody == "<none>"

UpRequest(url, method, ctype, auth, accept, body) ==
    [url |-> url, method |-> method, ctype |-> ctype, authorization |-> auth,
     accept |-> accept, body |-> body]

\* url.pathname.replace("/api/opencode", "")
opencodeApiPath(path) == SubSeq(path, 3, Len(path))

\* The fetch each handler issues.
UpstreamRequest(req) ==
    LET route == Route(req.path) IN
    CASE route = "oauthToken" ->
            UpRequest(Url("https://console.anthropic.com", <<"v1", "oauth", "token">>, ""),
                      "POST", Json, NoHeader, NoHeader, StringifyJson(ParseJson(req.body)))
      [] route = "oauthApiKey" ->
            UpRequest(Url("https://api.anthropic.com",
                          <<"api", "oauth", "claude_cli", "create_api_key">>, ""),
                      "POST", Json, "Bearer " \o ParseJson(req.body).access_token,
                      NoHeader, NoUpBody)
      [] route = "auth" ->
            UpRequest(OpencodeUrl(<<"auth", req.path[4]>>, ""), "PUT", Json, NoHeader,
                      NoHeader, req.body)
      [] route = "session" /\ req.method = "GET" ->
            UpRequest(OpencodeUrl(<<"session">>, req.search), req.method, Json, NoHeader,
                      NoHeader, NoUpBody)
      [] route = "session" /\ req.method = "POST" ->
            UpRequest(OpencodeUrl(<<"session">>, ""), "POST", Json, NoHeader, NoHeader,
                      req.body)
      [] route = "message" /\ req.method = "GET" ->
            UpRequest(OpencodeUrl(<<"session", req.path[4], "message">>, req.search), "GET",
                      Json, NoHeader, NoHeader, NoUpBody)
      [] route = "message" /\ req.method = "POST" ->
            UpRequest(OpencodeUrl(<<"session", req.path[4], "message">>, ""), "POST", Json,
                      NoHeader, NoHeader, req.body)
      [] route = "events" ->
            UpRequest(OpencodeUrl(<<"event">>, ""), "GET", NoHeader, NoHeader, EventStream,
                      NoUpBody)
      [] route = "catchAll" ->
            UpRequest(OpencodeUrl(opencodeApiPath(req.path), req.search), req.method,
                      IF req.ctype # NoHeader THEN req.ctype ELSE Json, NoHeader, NoHeader,
                      IF req.method # "GET" /\ req.method # "HEAD" THEN req.body
                      ELSE NoUpBody)

\* ---- what the upstream can answer ----
Chars == {"a", "b"}

MaxBody == 2

\* kind "throw": the fetch rejects; "reset": the headers arrive and reading
\* the body rejects; "http": a complete answer.
UpAnswers ==
    [kind : {"http"}, status : {200, 201, 404, 500},
     ctype : {NoHeader, Json, TextPlain, EventStream},
     body : UNION { [1..n -> Chars] : n \in 0..MaxBody }]
      \cup [kind : {"throw", "reset"}, status : {0}, ctype : {NoHeader}, body : {<<>>}]

Ok(status) == status >= 200 /\ status <= 299

\* ---- what the relay answers ----
RelayResponse(status, ctype, acao, body, stream) ==
    [status |-> status, ctype |-> ctype, acao |-> acao, body |-> body, stream |-> stream]

\* Response.json({error: msg}, {status, headers})
JsonError(msg, status, acao) ==
    RelayResponse(status, JsonUtf8, acao, <<"{\"error\":\"" \o msg \o "\"}">>, FALSE)

\* new Response(text, {status, headers}): a string body with no content-type
\* header gets the default one.
TextResponse(status, ctype, body) ==
    RelayResponse(status,
                  IF ctype = NoHeader THEN "text/plain;charset=UTF-8" ELSE ctype,
                  "*", body, FALSE)

Failed(ans) == ans.kind \in {"throw", "reset"}

\* "/api/anthropic/oauth/token" POST, after the fetch.
OauthTokenRoute(ans) ==
    IF Failed(ans) THEN JsonError("Failed to exchange OAuth token", 500, "*")
    ELSE TextResponse(ans.status, Json, ans.body)

\* "/api/anthropic/oauth/api-key" POST, after the fetch.
OauthApiKeyRoute(ans) ==
    IF Failed(ans) THEN JsonError("Failed to create API key", 500, "*")
    ELSE TextResponse(ans.status, Json, ans.body)

\* "/api/opencode/auth/:id" PUT, after the fetch.
AuthRoute(ans) ==
    IF Failed(ans) THEN JsonError("Failed to store auth credentials", 502, "*")
    ELSE TextResponse(ans.status, Json, ans.body)

\* The session and message handlers and the catch-all share one shape: copy
\* the upstream's content-type when it has one, its status and its text.
CopyResponse(ans) == TextResponse(ans.status, ans.ctype, ans.body)

SessionRoute(method, ans) ==
    IF Failed(ans)
    THEN JsonError(IF method = "GET" THEN "Failed to connect to OpenCode server"
                   ELSE "Failed to create session", 502, "*")
    ELSE CopyResponse(ans)

MessageRoute(method, ans) ==
    IF Failed(ans)
    THEN JsonError(IF method = "GET" THEN "Failed to fetch messages"
                   ELSE "Failed to send message", 502, "*")
    ELSE CopyResponse(ans)

\* "/api/opencode/events", after the fetch: a non-2xx answer is thrown into
\* the catch; otherwise the upstream's body stream becomes the response body.
EventsRoute_Unchecked(ans) ==
    IF ans.kind = "throw"
    THEN JsonError("Failed to connect to OpenCode events stream", 502, "*")
    ELSE RelayResponse(200, EventStream, "*", <<>>, TRUE)

EventsRoute(ans) ==
    IF ans.kind = "throw" \/ ~Ok(ans.status)
    THEN JsonError("Failed to connect to OpenCode events stream", 502, "*")
    ELSE RelayResponse(200, EventStream, "*", <<>>, TRUE)

\* "/api/opencode/*", after the fetch; its catch sets no CORS header.
CatchAllRoute(ans) ==
    IF Failed(ans) THEN JsonError("Failed to connect to OpenCode server", 502, NoHeader)
    ELSE CopyResponse(ans)

RouteResponse(req, ans) ==
    LET route == Route(req.path) IN
    CASE route = "oauthToken"  -> OauthTokenRoute(ans)
      [] route = "oauthApiKey" -> OauthApiKeyRoute(ans)
      [] route = "auth"        -> AuthRoute(ans)
      [] route = "session"     -> SessionRoute(req.method, ans)
      [] route = "message"     -> MessageRoute(req.method, ans)
      [] route = "events"      -> EventsRoute(ans)
      [] route = "catchAll"    -> CatchAllRoute(ans)

NoReq == [path |-> <<>>, method |-> "", search |-> "", ctype |-> NoHeader, body |-> ""]

NoAns == [kind |-> "none", status |-> 0, ctype |-> NoHeader, body |-> <<>>]

NoResp == RelayResponse(0, NoHeader, NoHeader, <<>>, FALSE)

\* What neither the relay nor the chat widget writes.
uiVars == <<storage, authVariant, authUi, startCall, flow, starts, statusVariant, modal,
            providers, loading, statusError, fetching, clearing, refreshTimers, net,
            clicks, appVars>>

\* A request arrives and its handler runs up to the upstream fetch.
RelayRequest(req) ==
    /\ relPc = "idle"
    /\ relReq' = req
    /\ relAns' = NoAns
    /\ IF AnsweredLocally(req)
       THEN \* an OPTIONS handler: new Response(null, {status: 200, headers})
            /\ relUp' = <<>>
            /\ relResp' = RelayResponse(200, NoHeader, "*", <<>>, FALSE)
            /\ relPc' = "done"
       ELSE IF Route(req.path) \in {"oauthToken", "oauthApiKey"} /\ ~JsonValid(req.body)
       THEN \* await req.json() throws into the catch of the OAuth handlers
            /\ relUp' = <<>>
            /\ relResp' = RouteResponse(req, [NoAns EXCEPT !.kind = "throw"])
            /\ relPc' = "done"
       ELSE /\ relUp' = <<UpstreamRequest(req)>>
            /\ relResp' = NoResp
            /\ relPc' = "fetching"
    /\ lastOp' = "relayRequest"
    /\ lastArg' = Route(req.path)
    /\ UNCHANGED <<uiVars, chatVars>>

\* The upstream answers and the handler builds the response.
RelayUpstream(ans) ==
    /\ relPc = "fetching"
    /\ Route(relReq.path) = "events" => ans.kind # "reset" /\ ans.body = <<>>
    /\ relAns' = ans
    /\ relResp' = RouteResponse(relReq, ans)
    /\ relPc' = IF RouteResponse(relReq, ans).stream THEN "streaming" ELSE "done"
    /\ lastOp' = "relayUpstream"
    /\ lastArg' = ans.kind
    /\ UNCHANGED <<relReq, relUp, uiVars, chatVars>>

\* The response body of the events route is the upstream's body stream.
PassThrough(body, chunk) == Append(body, chunk)

\* The upstream writes one more chunk of the event stream.
EventsChunk(chunk) ==
    /\ relPc = "streaming"
    /\ Len(relAns.body) < MaxBody
    /\ relAns' = [relAns EXCEPT !.body = Append(@, chunk)]
    /\ relResp' = [relResp EXCEPT !.body = PassThrough(@, chunk)]
    /\ lastOp' = "eventsChunk"
    /\ lastArg' = chunk
    /\ UNCHANGED <<relPc, relReq, relUp, uiVars, chatVars>>

(***************************************************************************)
(* The chat widget (components/AiChat.tsx) with the OpenCode server's      *)
(* session and message store behind it.  Ids and texts are sequences of    *)
(* characters, so that startsWith, includes, slice and trim are computed.  *)
(***************************************************************************)
NullId == <<"<null>">>                \* sessionId === null

\* The user's actions on the widget and the events the server and the
\* browser deliver to it are bounded together.
MaxActs == 5

\* createSession runs once on mount and once per Reconnect.
MaxCreates == MaxActs + 1

SessionIdOf(n) == <<"s", "e", "s", "_", ToString(n)>>

SessionIds == { SessionIdOf(n) : n \in 1..MaxCreates }

\* The id the server gives the message at position pos of a session.
MsgIdOf(sid, pos) == <<"m", "s", "g", "_", sid[5], ToString(pos)>>

\* Date.now().toString() of the n-th locally created message.
LocalId(n) == <<"t", ToString(n)>>

Message(id, role, content) == [id |-> id, role |-> role, content |-> content]

Remove(seq, i) == SubSeq(seq, 1, i - 1) \o SubSeq(seq, i + 1, Len(seq))

\* ---- string functions ----
RECURSIVE TrimStart(_)
TrimStart(s) == IF s # <<>> /\ Head(s) = " " THEN TrimStart(Tail(s)) ELSE s

RECURSIVE TrimEnd(_)
TrimEnd(s) == IF s # <<>> /\ s[Len(s)] = " " THEN TrimEnd(SubSeq(s, 1, Len(s) - 1)) ELSE s

\* String.prototype.trim that leaves trailing white space in place.
Trim_StartOnly(s) == TrimStart(s)

Trim(s) == TrimEnd(TrimStart(s))

StartsWith(s, p) == Len(s) >= Len(p) /\ SubSeq(s, 1, Len(p)) = p

Includes(s, t) == \E i \in 0..(Len(s) - Len(t)) : SubSeq(s, i + 1, i + Len(t)) = t

\* s.slice(a, b)
Slice(s, a, b) == SubSeq(s, a + 1, IF b < Len(s) THEN b ELSE Len(s))

Inputs == {<<>>, <<" ">>, <<"h", " ">>}

\* ---- the server's message list and fetchLatestMessages ----
ServerEntry(id, role, parts, replyTo) ==
    [id |-> id, role |-> role, parts |-> parts, replyTo |-> replyTo]

ReplyParts == {<<>>, <<<<"x">>, <<"y">>>>}

ResponseReceived == <<"Response received">>

RECURSIVE Join(_)
Join(parts) == IF parts = <<>> THEN <<>> ELSE Head(parts) \o Join(Tail(parts))

\* msgData.parts?.map(p => p.text || p.content).filter(Boolean).join("")
\*   || "Response received"
PartsContent(parts) == IF Join(parts) = <<>> THEN ResponseReceived ELSE Join(parts)

\* A findIndex that finds nothing.
FindIndex_Never(msgs, id) == 0

\* prev.findIndex(m => m.id === id), 0 for -1
FindIndex(msgs, id) ==
    IF \E i \in 1..Len(msgs) : msgs[i].id = id
    THEN CHOOSE i \in 1..Len(msgs) :
            msgs[i].id = id /\ \A j \in 1..(i - 1) : msgs[j].id # id
    ELSE 0

\* The setMessages updater of fetchLatestMessages for one list entry.
ApplyEntry(msgs, e) ==
    IF e.role # "assistant" THEN msgs
    ELSE IF FindIndex(msgs, e.id) > 0
    THEN [msgs EXCEPT ![FindIndex(msgs, e.id)].content = PartsContent(e.parts)]
    ELSE Append(msgs, Message(e.id, "assistant", PartsContent(e.parts)))

RECURSIVE ApplyList(_, _)
ApplyList(msgs, list) ==
    IF list = <<>> THEN msgs ELSE ApplyList(ApplyEntry(msgs, Head(list)), Tail(list))

HasAssistant(list) == \E i \in 1..Len(list) : list[i].role = "assistant"

\* ---- server-sent events ----
UndefinedText == <<Undefined>>

SseEvent(valid, type, sessionID, infoId, messageID, text, role, id, content) ==
    [valid |-> valid, type |-> type, sessionID |-> sessionID, infoId |-> infoId,
     messageID |-> messageID, text |-> text, role |-> role, id |-> id,
     content |-> content]

FirstSession == SessionIdOf(1)

FirstReply == MsgIdOf(FirstSession, 2)

SseEvents == {
    SseEvent(FALSE, "", UndefinedText, UndefinedText, UndefinedText, UndefinedText,
             Undefined, UndefinedText, UndefinedText),
    SseEvent(TRUE, "message.part.updated", FirstSession, UndefinedText, FirstReply,
             <<"x">>, Undefined, UndefinedText, UndefinedText),
    SseEvent(TRUE, "message.part.updated", FirstSession, UndefinedText, FirstReply,
             <<"y">>, Undefined, UndefinedText, UndefinedText),
    SseEvent(TRUE, "message.part.updated", FirstSession, UndefinedText, UndefinedText,
             <<"x">>, Undefined, UndefinedText, UndefinedText),
    SseEvent(TRUE, "message.part.updated", UndefinedText, UndefinedText, FirstReply,
             <<"x">>, Undefined, UndefinedText, UndefinedText),
    SseEvent(TRUE, "message.updated", FirstSession, UndefinedText, UndefinedText,
             UndefinedText, "assistant", FirstReply, UndefinedText),
    SseEvent(TRUE, "message.created", FirstSession, UndefinedText, UndefinedText,
             UndefinedText, "user", MsgIdOf(FirstSession, 1), <<"h">>),
    SseEvent(TRUE, "session.idle", FirstSession, UndefinedText, UndefinedText,
             UndefinedText, Undefined, UndefinedText, UndefinedText),
    SseEvent(TRUE, "session.updated", FirstSession, UndefinedText, UndefinedText,
             UndefinedText, Undefined, UndefinedText, UndefinedText),
    SseEvent(TRUE, "storage.write", FirstSession, UndefinedText, UndefinedText,
             UndefinedText, Undefined, UndefinedText, UndefinedText),
    SseEvent(TRUE, "session.idle", <<"s", "e", "s", "_", "9">>, UndefinedText,
             UndefinedText, UndefinedText, Undefined, UndefinedText, UndefinedText) }

\* A session test that every event passes.
Matches_Always(e, sid) == TRUE

\* The session test of onmessage.
Matches(e, sid) ==
    \/ e.sessionID = sid
    \/ (e.infoId # UndefinedText /\ StartsWith(e.infoId, sid))
    \/ (e.messageID # UndefinedText /\ Includes(e.messageID, Slice(sid, 4, 12)))

\* a || b || ""
TextOr(a, b) == IF a # UndefinedText /\ a # <<>> THEN a
                ELSE IF b # UndefinedText /\ b # <<>> THEN b ELSE <<>>

\* The setMessages updater of a message.part.updated event.
PartUpdated(msgs, e) ==
    LET idx == FindIndex(msgs, e.messageID)
        newContent == TextOr(e.text, e.content)
    IN  IF idx > 0
        THEN IF ~Includes(msgs[idx].content, newContent)
             THEN [msgs EXCEPT ![idx].content = @ \o newContent]
             ELSE msgs
        ELSE IF e.messageID # UndefinedText
        THEN Append(msgs, Message(e.messageID, "assistant", newContent))
        ELSE msgs

\* The setMessages updater of a message.created / message.updated event.
MessageUpdated(msgs, e) ==
    IF FindIndex(msgs, e.id) > 0 THEN msgs
    ELSE Append(msgs, Message(e.id, "assistant",
                              IF e.content # UndefinedText /\ e.content # <<>>
                              THEN e.content ELSE ResponseReceived))

\* ---- event sources ----
NewEventSource(sid) == [url |-> "/api/opencode/events", sid |-> sid, state |-> "open"]

\* A close() that leaves the source open.
Close_Nothing(srcs, ref) == srcs

\* eventSourceRef.current.close(), when the ref holds a source.
Close(srcs, ref) == IF ref # 0 THEN [srcs EXCEPT ![ref].state = "closed"] ELSE srcs

setupEventSource_NoOpen(srcs, ref, sid) == [sources |-> Close(srcs, ref), ref |-> ref]

\* setupEventSource: close the current one, open a new one, keep it in the ref.
setupEventSource(srcs, ref, sid) ==
    [sources |-> Append(Close(srcs, ref), NewEventSource(sid)), ref |-> Len(srcs) + 1]

\* ---- error texts ----
CreateErrorMsg(out) ==
    CASE out = "non2xx"  -> "Failed to create session (status): error"
      [] out = "throw"   -> "Failed to fetch"
      [] out = "badjson" -> "Unexpected token"

SendErrorMsg(out) ==
    IF out = "non2xx" THEN "Failed to send message: status" ELSE "Failed to fetch"

\* One more user action or delivered event.
Act == acts < MaxActs /\ acts' = acts + 1

\* A handler that reports its error to the parent twice.
onError_Twice(msg) == onErrors' = onErrors + 2

\* onError?.(errorMsg): the widget calls the prop its parent passed.
onError(msg) == onErrors' = onErrors + 1

\* The Reconnect button (shown while sessionId is null): createSession up to
\* its fetch.
Reconnect ==
    /\ mounted
    /\ sessionId = NullId
    /\ Act
    /\ creating' = creating + 1
    /\ lastOp' = "createSession"
    /\ lastArg' = ""
    /\ UNCHANGED <<mounted, messages, input, isLoading, sessionId,
                   eventSourceRef, sources, posts, timers, polls, turns,
                   onErrors, localIds, srvMsgs, issued>>
    /\ UNCHANGED <<uiVars, relayVars>>

\* createSession after its fetch, with a catch branch that only logs.
CreateSessionResponse_Silent(out) ==
    /\ creating > 0
    /\ creating' = creating - 1
    /\ IF out = "ok"
       THEN LET id == SessionIdOf(issued + 1)
                es == setupEventSource(sources, eventSourceRef, id)
            IN  /\ issued' = issued + 1
                /\ sessionId' = IF mounted THEN id ELSE sessionId
                /\ sources' = es.sources
                /\ eventSourceRef' = es.ref
                /\ UNCHANGED <<messages, onErrors, localIds>>
       ELSE /\ UNCHANGED <<messages, onErrors, localIds>>
            /\ UNCHANGED <<issued, sessionId, sources, eventSourceRef>>
    /\ lastOp' = "createSessionResponse"
    /\ lastArg' = out
    /\ UNCHANGED <<mounted, input, isLoading, posts, timers, polls, turns,
                   srvMsgs, acts>>
    /\ UNCHANGED <<uiVars, relayVars>>

\* createSession after its fetch: a 2xx answer carries the new session's id.
CreateSessionResponse(out) ==
    /\ creating > 0
    /\ creating' = creating - 1
    /\ IF out = "ok"
       THEN LET id == SessionIdOf(issued + 1)
                es == setupEventSource(sources, eventSourceRef, id)
            IN  /\ issued' = issued + 1
                /\ sessionId' = IF mounted THEN id ELSE sessionId
                /\ sources' = es.sources
                /\ eventSourceRef' = es.ref
                /\ UNCHANGED <<messages, onErrors, localIds>>
       ELSE /\ onError(CreateErrorMsg(out))
            /\ localIds' = localIds + 1
            /\ messages' = IF mounted
                           THEN Append(messages,
                                       Message(LocalId(localIds + 1), "assistant",
                                               <<"Unable to connect to OpenCode server">>))
                           ELSE messages
            /\ UNCHANGED <<issued, sessionId, sources, eventSourceRef>>
    /\ lastOp' = "createSessionResponse"
    /\ lastArg' = out
    /\ UNCHANGED <<mounted, input, isLoading, posts, timers, polls, turns,
                   srvMsgs, acts>>
    /\ UNCHANGED <<uiVars, relayVars>>

\* The browser reports an error on an event source; onerror only logs, and
\* the source delivers nothing from then on.
EventSourceError(i) ==
    /\ i \in 1..Len(sources)
    /\ sources[i].state = "open"
    /\ Act
    /\ sources' = [sources EXCEPT ![i].state = "errored"]
    /\ lastOp' = "onerror"
    /\ lastArg' = ""
    /\ UNCHANGED <<mounted, messages, input, isLoading, sessionId,
                   eventSourceRef, creating, posts, timers, polls, turns,
                   onErrors, localIds, srvMsgs, issued>>
    /\ UNCHANGED <<uiVars, relayVars>>

\* eventSource.onmessage of source i, whose closure holds the session id the
\* source was set up for.
OnMessage(i, e) ==
    /\ i \in 1..Len(sources)
    /\ sources[i].state = "open"
    /\ Act
    /\ LET sid == sources[i].sid
           matched == e.valid /\ Matches(e, sid)
       IN  /\ messages' =
                IF ~matched \/ ~mounted THEN messages
                ELSE IF e.type = "message.part.updated" THEN PartUpdated(messages, e)
                ELSE IF e.type \in {"message.created", "message.updated"}
                        /\ e.role = "assistant" THEN MessageUpdated(messages, e)
                ELSE messages
           /\ isLoading' =
                IF matched /\ mounted
                   /\ \/ e.type \in {"message.part.updated", "session.idle"}
                      \/ (e.type \in {"message.created", "message.updated"}
                          /\ e.role = "assistant")
                THEN FALSE ELSE isLoading
           /\ timers' = IF matched /\ e.type = "session.idle"
                        THEN Append(timers, [kind |-> "idle", sid |-> sid, turn |-> 0])
                        ELSE timers
           /\ polls' = IF matched /\ e.type = "session.updated"
                       THEN Append(polls, [sid |-> sid, turn |-> 0])
                       ELSE polls
           /\ lastArg' = IF matched THEN e.type ELSE "ignored"
    /\ lastOp' = "onmessage"
    /\ UNCHANGED <<mounted, input, sessionId, eventSourceRef, sources, creating,
                   posts, turns, onErrors, localIds, srvMsgs, issued>>
    /\ UNCHANGED <<uiVars, relayVars>>

\* The user edits the input field (disabled while loading or without session).
SetInput(text) ==
    /\ mounted
    /\ ~(isLoading \/ sessionId = NullId)
    /\ text # input
    /\ Act
    /\ input' = text
    /\ lastOp' = "setInput"
    /\ lastArg' = ""
    /\ UNCHANGED <<mounted, messages, isLoading, sessionId, eventSourceRef,
                   sources, creating, posts, timers, polls, turns, onErrors,
                   localIds, srvMsgs, issued>>
    /\ UNCHANGED <<uiVars, relayVars>>

\* The guard of sendMessage without the test of the trimmed input.
SendAccepted_AcceptsBlank == ~(sessionId = NullId \/ isLoading)

\* The guard of sendMessage.
SendAccepted == ~(Trim(input) = <<>> \/ sessionId = NullId \/ isLoading)

\* No event source of the widget can deliver an event any more.
SseDead == \A i \in 1..Len(sources) : sources[i].state # "open"

\* The widget's event source has reported an error and none is open.
SseErrored ==
    /\ eventSourceRef # 0
    /\ sources[eventSourceRef].state = "errored"
    /\ SseDead

\* sendMessage up to its fetch.
SendMessage ==
    /\ mounted
    /\ Act
    /\ IF SendAccepted
       THEN /\ messages' = Append(messages,
                                  Message(LocalId(localIds + 1), "user", Trim(input)))
            /\ localIds' = localIds + 1
            /\ input' = <<>>
            /\ isLoading' = TRUE
            /\ posts' = Append(posts, [sid |-> sessionId, text |-> Trim(input),
                                       turn |-> Len(turns) + 1])
            /\ turns' = Append(turns, [sid |-> sessionId, sseDead |-> SseErrored,
                                           post |-> "pending", poll |-> "none",
                                           userPos |-> 0])
            /\ lastArg' = "accepted"
       ELSE /\ UNCHANGED <<messages, localIds, input, isLoading, posts, turns>>
            /\ lastArg' = "rejected"
    /\ lastOp' = "sendMessage"
    /\ UNCHANGED <<mounted, sessionId, eventSourceRef, sources, creating, timers,
                   polls, onErrors, srvMsgs, issued>>
    /\ UNCHANGED <<uiVars, relayVars>>

\* sendMessage after its fetch, scheduling the fallback poll after a failed
\* POST as well.
PostResponse_PollOnFailure(i, out) ==
    /\ i \in 1..Len(posts)
    /\ LET p == posts[i] IN
       /\ posts' = Remove(posts, i)
       /\ IF out = "ok"
          THEN /\ srvMsgs' = [srvMsgs EXCEPT ![p.sid] =
                    Append(@, ServerEntry(MsgIdOf(p.sid, Len(@) + 1), "user",
                                          <<p.text>>, 0))]
               /\ timers' = Append(timers, [kind |-> "fallback", sid |-> p.sid,
                                            turn |-> p.turn])
               /\ turns' = [turns EXCEPT ![p.turn].post = "ok", ![p.turn].poll = "timer",
                                         ![p.turn].userPos = Len(srvMsgs[p.sid]) + 1]
               /\ UNCHANGED <<messages, isLoading, localIds, onErrors>>
          ELSE /\ onError(SendErrorMsg(out))
               /\ isLoading' = IF mounted THEN FALSE ELSE isLoading
               /\ localIds' = localIds + 1
               /\ messages' = IF mounted
                              THEN Append(messages,
                                          Message(LocalId(localIds + 1), "assistant",
                                                  <<"Error: " \o SendErrorMsg(out)>>))
                              ELSE messages
               /\ turns' = [turns EXCEPT ![p.turn].post = "failed"]
               /\ timers' = Append(timers, [kind |-> "fallback", sid |-> p.sid,
                                            turn |-> p.turn])
               /\ UNCHANGED srvMsgs
    /\ lastOp' = "postResponse"
    /\ lastArg' = out
    /\ UNCHANGED <<mounted, input, sessionId, eventSourceRef, sources, creating,
                   polls, issued, acts>>
    /\ UNCHANGED <<uiVars, relayVars>>

\* sendMessage after its fetch.  On a 2xx the server has stored the user's
\* message and the fallback poll is scheduled.
PostResponse(i, out) ==
    /\ i \in 1..Len(posts)
    /\ LET p == posts[i] IN
       /\ posts' = Remove(posts, i)
       /\ IF out = "ok"
          THEN /\ srvMsgs' = [srvMsgs EXCEPT ![p.sid] =
                    Append(@, ServerEntry(MsgIdOf(p.sid, Len(@) + 1), "user",
                                          <<p.text>>, 0))]
               /\ timers' = Append(timers, [kind |-> "fallback", sid |-> p.sid,
                                            turn |-> p.turn])
               /\ turns' = [turns EXCEPT ![p.turn].post = "ok", ![p.turn].poll = "timer",
                                         ![p.turn].userPos = Len(srvMsgs[p.sid]) + 1]
               /\ UNCHANGED <<messages, isLoading, localIds, onErrors>>
          ELSE /\ onError(SendErrorMsg(out))
               /\ isLoading' = IF mounted THEN FALSE ELSE isLoading
               /\ localIds' = localIds + 1
               /\ messages' = IF mounted
                              THEN Append(messages,
                                          Message(LocalId(localIds + 1), "assistant",
                                                  <<"Error: " \o SendErrorMsg(out)>>))
                              ELSE messages
               /\ turns' = [turns EXCEPT ![p.turn].post = "failed"]
               /\ UNCHANGED <<srvMsgs, timers>>
    /\ lastOp' = "postResponse"
    /\ lastArg' = out
    /\ UNCHANGED <<mounted, input, sessionId, eventSourceRef, sources, creating,
                   polls, issued, acts>>
    /\ UNCHANGED <<uiVars, relayVars>>

\* The user messages of a session that have no reply yet.
Unanswered(list) ==
    { p \in 1..Len(list) :
        list[p].role = "user" /\ \A q \in 1..Len(list) : list[q].replyTo # p }

\* The OpenCode server stores the assistant's reply to the oldest unanswered
\* user message of a session.
ServerReply(sid, parts) ==
    /\ Unanswered(srvMsgs[sid]) # {}
    /\ LET p == CHOOSE x \in Unanswered(srvMsgs[sid]) :
                    \A y \in Unanswered(srvMsgs[sid]) : x <= y
       IN srvMsgs' = [srvMsgs EXCEPT ![sid] =
              Append(@, ServerEntry(MsgIdOf(sid, Len(@) + 1), "assistant", parts, p))]
    /\ lastOp' = "serverReply"
    /\ lastArg' = ""
    /\ UNCHANGED <<mounted, messages, input, isLoading, sessionId,
                   eventSourceRef, sources, creating, posts, timers, polls,
                   turns, onErrors, localIds, issued, acts>>
    /\ UNCHANGED <<uiVars, relayVars>>

\* A fallback or session.idle timer fires: fetchLatestMessages up to its fetch.
TimerFire(i) ==
    /\ i \in 1..Len(timers)
    /\ timers' = Remove(timers, i)
    /\ polls' = Append(polls, [sid |-> timers[i].sid, turn |-> timers[i].turn])
    /\ turns' = IF timers[i].turn > 0
                THEN [turns EXCEPT ![timers[i].turn].poll = "inflight"] ELSE turns
    /\ lastOp' = "timerFire"
    /\ lastArg' = timers[i].kind
    /\ UNCHANGED <<mounted, messages, input, isLoading, sessionId,
                   eventSourceRef, sources, creating, posts, onErrors, localIds,
                   srvMsgs, issued, acts>>
    /\ UNCHANGED <<uiVars, relayVars>>

\* fetchLatestMessages after its fetch; a 2xx answer carries the session's
\* message list.
PollResponse(i, out) ==
    /\ i \in 1..Len(polls)
    /\ polls' = Remove(polls, i)
    /\ LET list == IF out = "ok" THEN srvMsgs[polls[i].sid] ELSE <<>> IN
       /\ messages' = IF mounted THEN ApplyList(messages, list) ELSE messages
       /\ isLoading' = IF mounted /\ HasAssistant(list) THEN FALSE ELSE isLoading
    /\ turns' = IF polls[i].turn > 0
                THEN [turns EXCEPT ![polls[i].turn].poll = "done"] ELSE turns
    /\ lastOp' = "pollResponse"
    /\ lastArg' = out
    /\ UNCHANGED <<mounted, input, sessionId, eventSourceRef, sources, creating,
                   posts, timers, onErrors, localIds, srvMsgs, issued, acts>>
    /\ UNCHANGED <<uiVars, relayVars>>

\* The Clear button (disabled while loading).
clearChat ==
    /\ mounted
    /\ ~isLoading
    /\ Act
    /\ messages' = <<>>
    /\ input' = <<>>
    /\ isLoading' = FALSE
    /\ lastOp' = "clearChat"
    /\ lastArg' = ""
    /\ UNCHANGED <<mounted, sessionId, eventSourceRef, sources, creating, posts,
                   timers, polls, turns, onErrors, localIds, srvMsgs, issued>>
    /\ UNCHANGED <<uiVars, relayVars>>

\* The widget unmounts: the cleanup of the mount effect closes the event
\* source the ref holds; later state updates of this instance are dropped.
Unmount ==
    /\ mounted
    /\ Act
    /\ mounted' = FALSE
    /\ sources' = Close(sources, eventSourceRef)
    /\ lastOp' = "unmount"
    /\ lastArg' = ""
    /\ UNCHANGED <<messages, input, isLoading, sessionId, eventSourceRef,
                   creating, posts, timers, polls, turns, onErrors, localIds,
                   srvMsgs, issued>>
    /\ UNCHANGED <<uiVars, relayVars>>

(***************************************************************************)
(* Initial state: the page is loaded, AuthStatus is mounted and (in the     *)
(* provider-list version) its mount effect has called fetchProviders;      *)
(* AiChat is mounted and its mount effect has called createSession.        *)
(***************************************************************************)
Init ==
    /\ storage = EmptyStorage
    /\ authVariant \in {"manual", "popup"}
    /\ authUi = InitAuthUi
    /\ startCall = NoStart
    /\ flow = IdleFlow
    /\ starts = 0
    /\ statusVariant \in {"dynamic", "static"}
    /\ modal = NoModal
    /\ providers = <<>>
    /\ loading = (statusVariant = "dynamic")
    /\ statusError = ""
    /\ fetching = IF statusVariant = "dynamic" THEN 1 ELSE 0
    /\ clearing = [id \in ProviderIds |-> 0]
    /\ refreshTimers = 0
    /\ net = [getProviders |-> IF statusVariant = "dynamic" THEN 1 ELSE 0,
              delete |-> [id \in ProviderIds |-> 0]]
    /\ clicks = 0
    /\ relPc = "idle"
    /\ relReq = NoReq
    /\ relUp = <<>>
    /\ relAns = NoAns
    /\ relResp = NoResp
    /\ mounted = TRUE
    /\ messages = <<>>
    /\ input = <<>>
    /\ isLoading = FALSE
    /\ sessionId = NullId
    /\ eventSourceRef = 0
    /\ sources = <<>>
    /\ creating = 1
    /\ posts = <<>>
    /\ timers = <<>>
    /\ polls = <<>>
    /\ turns = <<>>
    /\ onErrors = 0
    /\ localIds = 0
    /\ srvMsgs = [sid \in SessionIds |-> <<>>]
    /\ issued = 0
    /\ acts = 0
    /\ error = ""
    /\ errorTimers = <<>>
    /\ now = 0
    /\ raised = <<>>
    /\ lastOp = "init"
    /\ lastArg = ""

(***************************************************************************)
(* The login flow                                                          *)
(***************************************************************************)
\* The provider lists the server answers while a login is under way.
AnthropicBodies ==
    {b \in ProviderBodies :
        b.valid /\ b.hasList /\ Len(b.list) = 1 /\ b.list[1].id = "anthropic"}

\* A response that did not arrive as 2xx carries no JSON the code reads.
NoJson(S) == CHOOSE j \in S : ~j.valid

NextAuth ==
    \/ HandleAuthClick("anthropic")
    \/ CloseModal
    \/ \E m \in Methods : HandleStartAuth(m)
    \/ \E v \in Verifiers, secure \in BOOLEAN : StartAuthContinue(v, secure)
    \/ \E c \in Codes : HandleCompleteAuthManual(c)
    \/ \E c \in Codes, valid \in BOOLEAN : HandleAuthMessage(c, valid)
    \/ \E out \in HttpOutcomes :
         \E j \in IF out = "ok" THEN TokenJsons ELSE {NoJson(TokenJsons)} :
            TokenResponse(out, j)
    \/ \E out \in HttpOutcomes :
         \E j \in IF out = "ok" THEN KeyJsons ELSE {NoJson(KeyJsons)} :
            ApiKeyResponse(out, j)
    \/ \E out \in HttpOutcomes : PutResponse(out)
    \/ HandleCancelAuth
    \/ CancelPopup
    \/ RefreshTimerFire
    \/ RefreshClick
    \/ \E out \in HttpOutcomes :
         \E b \in IF out = "ok" THEN AnthropicBodies ELSE {NoJson(ProviderBodies)} :
            FetchProvidersResponse(out, b)

SpecAuth == Init /\ [][NextAuth]_vars

(***************************************************************************)
(* The provider status UI                                                  *)
(***************************************************************************)
\* The modal's child (AnthropicAuth or ApiKeyAuth) reports a completed
\* authentication: onAuthSuccess().
ChildAuthSuccess ==
    /\ modal.show
    /\ statusVariant = "static" \/ (~loading /\ statusError = "")
    /\ clicks < MaxClicks
    /\ clicks' = clicks + 1
    /\ handleAuthSuccess
    /\ lastOp' = "handleAuthSuccess"
    /\ lastArg' = ""
    /\ UNCHANGED uiFrame
    /\ UNCHANGED <<storage, authVariant, flow, starts, statusVariant, providers,
                   fetching, clearing, net, loading, statusError>>

NextStatus ==
    \/ \E id \in ProviderIds : HandleAuthClick(id)
    \/ CloseModal
    \/ ChildAuthSuccess
    \/ RefreshTimerFire
    \/ RefreshClick
    \/ \E id \in ProviderIds : HandleClearAuth(id)
    \/ \E id \in ProviderIds, out \in HttpOutcomes : ClearAuthResponse(id, out)
    \/ \E out \in HttpOutcomes :
         \E b \in IF out = "ok" THEN ProviderBodies ELSE {NoJson(ProviderBodies)} :
            FetchProvidersResponse(out, b)

SpecStatus == Init /\ [][NextStatus]_vars

\* The response has been sent (for the event stream: the stream has ended).
RelayRespond ==
    /\ relPc \in {"done", "streaming"}
    /\ relPc' = "idle"
    /\ relReq' = NoReq
    /\ relUp' = <<>>
    /\ relAns' = NoAns
    /\ relResp' = NoResp
    /\ lastOp' = "relayRespond"
    /\ lastArg' = ""
    /\ UNCHANGED <<uiVars, chatVars>>

NextRelay ==
    \/ \E req \in Requests : RelayRequest(req)
    \/ RelayRespond
    \/ \E ans \in UpAnswers : RelayUpstream(ans)
    \/ \E chunk \in Chars : EventsChunk(chunk)

SpecRelay == Init /\ [][NextRelay]_vars

\* The chat widget is checked with one build of the other two UIs.
InitChat == Init /\ authVariant = "manual" /\ statusVariant = "dynamic"

NextChat ==
    \/ Reconnect
    \/ \E out \in {"throw", "non2xx", "badjson", "ok"} : CreateSessionResponse(out)
    \/ \E i \in 1..MaxCreates : EventSourceError(i)
    \/ \E i \in 1..MaxCreates, e \in SseEvents : OnMessage(i, e)
    \/ \E text \in Inputs : SetInput(text)
    \/ SendMessage
    \/ \E i \in 1..MaxActs, out \in {"throw", "non2xx", "ok"} : PostResponse(i, out)
    \/ \E sid \in SessionIds, parts \in ReplyParts : ServerReply(sid, parts)
    \/ \E i \in 1..MaxActs : TimerFire(i)
    \/ \E i \in 1..MaxActs, out \in {"throw", "non2xx", "notArray", "ok"} :
            PollResponse(i, out)
    \/ clearChat
    \/ Unmount

SpecChat == InitChat /\ [][NextChat]_vars

(***************************************************************************)
(* The dashboard (App): the error banner fed by the chat widget's onError. *)
(* The calls of onError are the input here; time passes in steps of one    *)
(* second and a timer fires when it is due.                                *)
(***************************************************************************)
\* The delay of setTimeout(() => setError(null), 5000).
ErrorDelay == 5000

\* Calls of handleChatError in one behaviour.
MaxErrors == 2

\* The time up to which a behaviour is followed.
MaxTime == 12000

\* The texts the chat widget passes to onError.
ErrorMsgs ==
    {CreateErrorMsg(out) : out \in {"throw", "non2xx", "badjson"}}
    \cup {SendErrorMsg(out) : out \in {"throw", "non2xx"}}

\* What every step of the dashboard leaves alone.
appFrame == <<authVars, statusRest, modal, loading, statusError, refreshTimers,
              relayVars, chatVars>>

\* handleChatError: show the error and schedule the banner's reset.
handleChatError(errorMsg) ==
    /\ Len(raised) < MaxErrors
    /\ error' = errorMsg
    /\ errorTimers' = Append(errorTimers, now + ErrorDelay)
    /\ raised' = Append(raised, [msg |-> errorMsg, at |-> now])
    /\ lastOp' = "handleChatError"
    /\ lastArg' = errorMsg
    /\ UNCHANGED <<now, appFrame>>

\* The callback of the oldest pending timer runs: setError(null).
ErrorTimerFire ==
    /\ errorTimers # <<>>
    /\ Head(errorTimers) <= now
    /\ error' = ""
    /\ errorTimers' = Tail(errorTimers)
    /\ lastOp' = "errorTimerFire"
    /\ lastArg' = ""
    /\ UNCHANGED <<now, raised, appFrame>>

\* One second passes; no timer that is due is left waiting.
Tick ==
    /\ now < MaxTime
    /\ \A i \in 1..Len(errorTimers) : errorTimers[i] > now
    /\ now' = now + 1000
    /\ lastOp' = "tick"
    /\ lastArg' = ""
    /\ UNCHANGED <<error, errorTimers, raised, appFrame>>

NextApp ==
    \/ \E msg \in ErrorMsgs : handleChatError(msg)
    \/ ErrorTimerFire
    \/ Tick

SpecApp == InitChat /\ [][NextApp]_vars

(***************************************************************************)
(* Claims about the login flow (checked under SpecAuth)                    *)
(***************************************************************************)
\* completeAnthropicAuth has just returned from a call that reached
\* completeOAuthFlow.
CompleteReturned ==
    /\ lastOp \in {"tokenResponse", "apiKeyResponse", "putResponse"}
    /\ flow.pc = "idle" /\ flow.called

KeysAbsent ==
    /\ storage["anthropic_verifier"] = Absent
    /\ storage["anthropic_method"] = Absent

\* C1: once completeAnthropicAuth has called completeOAuthFlow with the stored
\* verifier and method and the call has returned, both session-storage keys
\* are absent, whatever completeOAuthFlow returned.
C1_KeysRemovedAfterComplete == CompleteReturned => KeysAbsent

\* C7: when the user cancels a login attempt (the Cancel button of either
\* AnthropicAuth component, or the modal's close button), the verifier and the
\* method are removed from session storage.
C7_CancelRemovesKeys ==
    lastOp \in {"handleCancelAuth", "cancelPopup", "closeModal"} => KeysAbsent

\* exchangeCode of the last completeAnthropicAuth call has returned.
ExchangeReturned == flow.called /\ flow.exchange.type # "pending"

FailedOutcomes == {"throw", "non2xx", "badjson"}

\* C8: exchangeCode returns normally, with exactly {type: "failed"} whenever
\* the token or the api-key endpoint answered non-2xx or a request threw, and
\* it requests each endpoint at most once.
C8_ExchangeFailsUniformly ==
    /\ flow.tokenCalls <= 1 /\ flow.apiKeyCalls <= 1
    /\ ExchangeReturned =>
         /\ flow.exchange.type \in {"success", "failed"}
         /\ (flow.tokenOut \in FailedOutcomes \/ flow.keyOut \in FailedOutcomes)
              => flow.exchange = FailedResult

\* C8 witness: the token endpoint answered 2xx, the api-key endpoint non-2xx,
\* and exchangeCode returned the failed result after one request to each.
C8_Witness ==
    /\ ExchangeReturned
    /\ flow.tokenOut = "ok" /\ flow.keyOut = "non2xx"
    /\ flow.tokenCalls = 1 /\ flow.apiKeyCalls = 1
    /\ flow.exchange = FailedResult

(***************************************************************************)
(* Claims about the status UI (checked under SpecStatus)                   *)
(***************************************************************************)
\* A step of handleClearAuth(id) up to its await issues one DELETE for id and
\* no other request.
ClearIssuesOneDelete ==
    lastOp' = "handleClearAuth" => net' = [net EXCEPT !.delete[lastArg'] = @ + 1]

\* C4 as claimed: clearing auth for provider id P issues exactly one DELETE to
\* /api/opencode/auth/P and no other mutating request, and when that DELETE
\* succeeds the status UI re-fetches the provider list.
C4_ClearThenRefetch ==
    [][/\ ClearIssuesOneDelete
       /\ (lastOp' = "clearAuthResponse" /\ lastArg' = "ok") =>
            /\ net'.delete = net.delete
            /\ net'.getProviders = net.getProviders + 1]_vars

\* C4 amended: one DELETE and no other mutating request per clear; when the
\* DELETE succeeds the provider-list version re-fetches the list, and the
\* static-provider version, which has no list, issues no request.
C4_ClearThenRefetchDynamic ==
    [][/\ ClearIssuesOneDelete
       /\ (lastOp' = "clearAuthResponse" /\ lastArg' = "ok") =>
            /\ net'.delete = net.delete
            /\ net'.getProviders =
                 net.getProviders + (IF statusVariant = "dynamic" THEN 1 ELSE 0)
            /\ statusVariant = "dynamic" => loading' /\ fetching' = fetching + 1]_vars

\* C4 witness: in the provider-list version a DELETE for a provider has been
\* issued once, it succeeded, and the refresh is in flight.
C4_Witness ==
    /\ statusVariant = "dynamic"
    /\ lastOp = "clearAuthResponse" /\ lastArg = "ok"
    /\ \E id \in ProviderIds : net.delete[id] = 1 /\ clearing[id] = 0
    /\ loading /\ fetching = 1 /\ net.getProviders >= 2

(***************************************************************************)
(* Claims about the relay (checked under SpecRelay)                        *)
(***************************************************************************)
\* The handler of the current request has built its response.
Answered == relPc \in {"done", "streaming"}

\* The current request went to a handler that forwards to an upstream.
Forwarding == Answered /\ ~AnsweredLocally(relReq)

\* The upstream request could not be completed.
Unreachable == relAns.kind \in {"throw", "reset"}

\* C3: for every proxied /api/opencode path (the catch-all route and the
\* dedicated auth, session and message routes) the relay's response has the
\* same status and the same Content-Type as the upstream's response.
C3_StatusAndContentTypeCopied ==
    (/\ Answered
     /\ Route(relReq.path) \in {"catchAll", "auth", "session", "message"}
     /\ relAns.kind = "http")
    => /\ relResp.status = relAns.status
       /\ relResp.ctype = relAns.ctype

\* C6: a request to /api/opencode/events opens exactly one upstream
\* connection, to /event; when that fetch throws or returns a non-2xx status
\* the relay answers 502 with a JSON error and no event stream; otherwise it
\* answers 200 with Content-Type text/event-stream and its body is the
\* upstream's body, unmodified and in order.
C6_EventsRelay ==
    (relPc # "idle" /\ Route(relReq.path) = "events")
    => /\ Len(relUp) = 1
       /\ relUp[1].url = OpencodeUrl(<<"event">>, "")
       /\ Answered =>
            IF relAns.kind = "throw" \/ ~Ok(relAns.status)
            THEN /\ relResp.status = 502
                 /\ relResp.ctype = JsonUtf8
                 /\ ~relResp.stream
                 /\ relResp.body =
                        <<"{\"error\":\"Failed to connect to OpenCode events stream\"}">>
            ELSE /\ relResp.status = 200
                 /\ relResp.ctype = EventStream
                 /\ relResp.stream
                 /\ relResp.body = relAns.body

\* The events relay is streaming and two different chunks have passed.
C6_Witness ==
    /\ relPc = "streaming"
    /\ Route(relReq.path) = "events"
    /\ relAns.status = 201
    /\ relResp.body = <<"a", "b">>

\* C9: every relay endpoint that forwards to an upstream answers 502 with a
\* generic error body when the upstream request cannot be completed, and in
\* every other case returns the upstream's status and body, also when that
\* status is an error status.
C9_UnreachableIs502ElseCopied ==
    (Forwarding /\ Len(relUp) = 1)
    => IF Unreachable
       THEN relResp.status = 502 /\ relResp.ctype = JsonUtf8
       ELSE relResp.status = relAns.status /\ relResp.body = relAns.body

\* C10: every relay response for a forwarded request, on the success path
\* and on every error path of every forwarding route, carries
\* Access-Control-Allow-Origin: *.
C10_CorsOnEveryResponse == Forwarding => relResp.acao = "*"

\* C11: for each request on a proxied /api/opencode path the relay issues
\* exactly one upstream request, with the request's method, the request's
\* body (no body for GET and HEAD) and the request's Content-Type; the
\* response is a function of that request and of the upstream's answer only.
C11_ForwardsMethodBodyContentType ==
    (/\ relPc # "idle"
     /\ Route(relReq.path) \in {"catchAll", "auth", "session", "message"}
     /\ ~AnsweredLocally(relReq))
    => /\ Len(relUp) = 1
       /\ relUp[1].method = relReq.method
       /\ relUp[1].body = IF relReq.method \in {"GET", "HEAD"}
                          THEN NoUpBody
                          ELSE relReq.body
       /\ relReq.ctype # NoHeader => relUp[1].ctype = relReq.ctype
       /\ relPc = "done" => relResp = RouteResponse(relReq, relAns)

(***************************************************************************)
(* Claims about the chat widget (checked under SpecChat)                   *)
(***************************************************************************)
\* The ids returned by the 2xx responses to POST /api/opencode/session.
IssuedIds == { SessionIdOf(n) : n \in 1..issued }

\* The assistant message the server stored as the reply to send k is in the
\* transcript.
ReplyInTranscript(k) ==
    \E p \in 1..Len(srvMsgs[turns[k].sid]) :
        /\ srvMsgs[turns[k].sid][p].role = "assistant"
        /\ srvMsgs[turns[k].sid][p].replyTo = turns[k].userPos
        /\ \E i \in 1..Len(messages) :
              /\ messages[i].role = "assistant"
              /\ messages[i].id = srvMsgs[turns[k].sid][p].id

\* C2: after the EventSource has reported an error and delivers no further
\* events, a send with a session active is accepted and its POST is issued,
\* and once that POST has returned 2xx and the fallback poll has run, the
\* assistant's reply is in the transcript and isLoading is false again.
C2_FallbackPollCompletesSend ==
    /\ (lastOp = "sendMessage" /\ lastArg = "accepted")
       => /\ posts # <<>>
          /\ posts[Len(posts)].sid = sessionId
          /\ posts[Len(posts)].turn = Len(turns)
    /\ \A k \in 1..Len(turns) :
         (/\ mounted
          /\ k = Len(turns)
          /\ turns[k].sseDead /\ SseDead
          /\ turns[k].post = "ok"
          /\ turns[k].poll = "done"
          /\ lastOp = "pollResponse"
          /\ creating = 0 /\ posts = <<>> /\ timers = <<>> /\ polls = <<>>)
         => /\ ~isLoading
            /\ ReplyInTranscript(k)

\* C5: when the POST /api/opencode/session of createSession returns 2xx with
\* session id X, an EventSource on /api/opencode/events is open and the
\* mounted widget's sessionId is X; sessionId is always null or an id that
\* such a response returned.
C5_SessionAndEventSource ==
    /\ sessionId \in {NullId} \cup IssuedIds
    /\ (lastOp = "createSessionResponse" /\ lastArg = "ok")
       => /\ eventSourceRef \in 1..Len(sources)
          /\ sources[eventSourceRef].url = "/api/opencode/events"
          /\ sources[eventSourceRef].state = "open"
          /\ mounted => sessionId = SessionIdOf(issued)

\* A second createSession (mount, then Reconnect while the first was still in
\* flight) has just returned 2xx: its session replaces the first one.
C5_Witness ==
    /\ lastOp = "createSessionResponse" /\ lastArg = "ok"
    /\ mounted
    /\ issued = 2
    /\ sessionId = SessionIdOf(2)
    /\ sources[1].state = "closed"
    /\ sources[2].state = "open"

\* The three states of the widget the specification names.
NoSession == sessionId = NullId
SessionActive == sessionId # NullId /\ ~isLoading
AwaitingReply == sessionId # NullId /\ isLoading

\* C12: the widget is always in exactly one of no-session, session-active
\* and awaiting-reply; sendMessage accepts a send only in session-active with
\* a non-blank input, and otherwise appends no message, issues no POST and
\* changes no state of the widget.
C12_SendOnlyWhenSessionActive ==
    /\ [](Cardinality({s \in {"none", "active", "awaiting"} :
                          \/ s = "none" /\ NoSession
                          \/ s = "active" /\ SessionActive
                          \/ s = "awaiting" /\ AwaitingReply}) = 1)
    /\ [][lastOp' = "sendMessage"
          => IF SessionActive /\ \E k \in 1..Len(input) : input[k] # " "
             THEN /\ Len(messages') = Len(messages) + 1
                  /\ Len(posts') = Len(posts) + 1
                  /\ lastArg' = "accepted"
             ELSE /\ lastArg' = "rejected"
                  /\ UNCHANGED <<mounted, messages, input, isLoading, sessionId,
                                 eventSourceRef, sources, creating, posts,
                                 timers, polls, turns, onErrors, localIds,
                                 srvMsgs, issued>>]_vars

\* sendMessage has just returned at its guard: a session is active and the
\* input holds only a space.
C12_Witness ==
    /\ lastOp = "sendMessage" /\ lastArg = "rejected"
    /\ SessionActive
    /\ input = <<" ">>

\* C13: an accepted send appends exactly one user message, at the end of the
\* transcript, whose content is the input without its leading and trailing
\* white space, sets isLoading, and issues exactly one POST, for the current
\* session, whose text part is the content of that user message.
C13_UserMessageThenOnePost ==
    [][(lastOp' = "sendMessage" /\ lastArg' = "accepted")
       => /\ Len(messages') = Len(messages) + 1
          /\ SubSeq(messages', 1, Len(messages)) = messages
          /\ isLoading'
          /\ Len(posts') = Len(posts) + 1
          /\ SubSeq(posts', 1, Len(posts)) = posts
          /\ LET m == messages'[Len(messages')]
                 p == posts'[Len(posts')]
             IN  /\ m.role = "user"
                 /\ m.content # <<>>
                 /\ m.content[1] # " " /\ m.content[Len(m.content)] # " "
                 /\ \E i, j \in 1..Len(input) :
                       /\ m.content = SubSeq(input, i, j)
                       /\ \A k \in 1..Len(input) : (k < i \/ k > j) => input[k] = " "
                 /\ p.sid = sessionId
                 /\ sessionId # NullId
                 /\ p.text = m.content]_vars

\* An input with trailing white space has just been sent: the user message
\* and the POST in flight hold it trimmed.
C13_Witness ==
    /\ lastOp = "sendMessage" /\ lastArg = "accepted"
    /\ messages[Len(messages)].content = <<"h">>
    /\ posts[Len(posts)].text = <<"h">>
    /\ isLoading

\* The event sources of the widget instance that are not closed.
OpenSources == { i \in 1..Len(sources) : sources[i].state # "closed" }

\* C14: at most one EventSource created by the widget instance is open in
\* any reachable state, also when createSession runs more than once.
C14_AtMostOneEventSource == Cardinality(OpenSources) <= 1

\* createSession has returned 2xx three times (mount and two Reconnect
\* clicks while the first calls were in flight): only the last source is open.
C14_Witness ==
    /\ Len(sources) = 3
    /\ sources[1].state = "closed"
    /\ sources[2].state = "closed"
    /\ sources[3].state = "open"
    /\ eventSourceRef = 3

\* C15: after the widget instance has unmounted, no EventSource it created
\* is open, whatever the order of the unmount and of the answer to a
\* session-creation request that was in flight.
C15_NoEventSourceAfterUnmount == ~mounted => OpenSources = {}

\* The fallback polls of send k that are scheduled or in flight.
FallbackPolls(k) ==
    Cardinality({i \in 1..Len(timers) : timers[i].turn = k})
    + Cardinality({i \in 1..Len(polls) : polls[i].turn = k})

NoRetryLogin ==
    /\ flow.tokenCalls <= 1 /\ flow.apiKeyCalls <= 1 /\ flow.putCalls <= 1
    /\ flow.tokenOut \notin {"none", "ok"}
       => flow.apiKeyCalls = 0 /\ flow.putCalls = 0 /\ flow.pc = "idle"
    /\ flow.keyOut \notin {"none", "ok"} => flow.putCalls = 0 /\ flow.pc = "idle"
    /\ flow.putOut \notin {"none", "ok"} => flow.pc = "idle"

\* The part of C16 about the status UI (checked under SpecStatus): the step
\* that handles a failed provider fetch issues no request and schedules no
\* timer, the step that handles the answer to a DELETE issues no DELETE, and
\* a DELETE is issued only by a click on Clear.
NoRetryStatus ==
    [][/\ (lastOp' = "fetchProvidersResponse" /\ lastArg' \notin {"ok", "noProviders"})
          => net' = net /\ refreshTimers' = refreshTimers
       /\ lastOp' = "clearAuthResponse" => net'.delete = net.delete
       /\ net'.delete # net.delete => lastOp' = "handleClearAuth"
       /\ net'.getProviders # net.getProviders
          => lastOp' \in {"refreshClick", "refreshTimerFire", "clearAuthResponse"}]_vars

\* C17: every failed operation of the chat widget (session creation, message
\* send, message-list poll) leaves an error message in the state of the UI:
\* the step that handles the failure appends a message to the transcript of
\* the mounted widget or reports the error to the dashboard through onError.
C17_FailureLeavesErrorMessage ==
    [][(/\ mounted
        /\ \/ lastOp' = "createSessionResponse" /\ lastArg' # "ok"
           \/ lastOp' = "postResponse" /\ lastArg' # "ok"
           \/ lastOp' = "pollResponse" /\ lastArg' \in {"throw", "non2xx"})
       => \/ onErrors' = onErrors + 1
          \/ /\ Len(messages') = Len(messages) + 1
             /\ messages'[Len(messages')].role = "assistant"]_vars

(***************************************************************************)
(* Claims about the dashboard (checked under SpecApp)                      *)
(***************************************************************************)
\* C18: the error raised last through onError is displayed during the
\* whole ErrorDelay that follows the moment it was raised, and the banner is
\* empty once that delay is over, also when it was raised while an earlier
\* error was displayed.
C18_ErrorShownForFullDelay ==
    raised # <<>> =>
        LET last == raised[Len(raised)] IN
        /\ now < last.at + ErrorDelay => error = last.msg
        /\ now > last.at + ErrorDelay => error = ""

(***************************************************************************)
(* Claims about the provider counts (checked under SpecStatus)             *)
(***************************************************************************)
\* C19: after a successful provider fetch the authenticated count is the
\* number of providers of the returned list whose authenticated flag is
\* true, the total is the length of the list, total minus authenticated is
\* the number whose flag is false, and an answer without a providers field
\* gives the empty list.
C19_CountsMatchList ==
    (lastOp = "fetchProvidersResponse" /\ lastArg \in {"ok", "noProviders"})
    => /\ authenticatedCount =
            Cardinality({i \in 1..Len(providers) : providers[i].authenticated})
       /\ totalCount = Len(providers)
       /\ totalCount - authenticatedCount =
            Cardinality({i \in 1..Len(providers) : ~providers[i].authenticated})
       /\ lastArg = "noProviders"
          => providers = <<>> /\ totalCount = 0 /\ authenticatedCount = 0

\* A fetch has returned two providers of which the second is authenticated.
C19_Witness ==
    /\ lastOp = "fetchProvidersResponse" /\ lastArg = "ok"
    /\ ~loading /\ statusError = ""
    /\ Len(providers) = 2
    /\ ~providers[1].authenticated /\ providers[2].authenticated
    /\ authenticatedCount = 1 /\ totalCount = 2

\* A fetch has returned an object without a providers field after a list
\* had been shown.
C19_NoProvidersField ==
    /\ lastOp = "fetchProvidersResponse" /\ lastArg = "noProviders"
    /\ net.getProviders >= 2

(***************************************************************************)
(* Claims about completeAnthropicAuth (checked under SpecAuth)             *)
(***************************************************************************)
\* A key of the login attempt is absent from session storage.
KeyMissing ==
    \/ storage["anthropic_verifier"] = Absent
    \/ storage["anthropic_method"] = Absent

\* C20: completeAnthropicAuth called while anthropic_verifier or
\* anthropic_method is absent from session storage returns the failure
\* result with the 'Missing authentication data' error, issues no network
\* request and leaves session storage unchanged.
C20_MissingDataFailsLocally ==
    [][(lastOp' = "handleCompleteAuth" /\ KeyMissing)
       => /\ flow'.ret = MissingData
          /\ ~flow'.ret.success
          /\ flow'.pc = "idle" /\ ~flow'.called
          /\ flow'.tokenCalls = 0 /\ flow'.apiKeyCalls = 0 /\ flow'.putCalls = 0
          /\ storage' = storage]_vars

\* completeAnthropicAuth has just returned for a code that arrived while
\* session storage held no key of a login attempt.
C20_Witness ==
    /\ lastOp = "handleCompleteAuth"
    /\ KeyMissing
    /\ flow.ret = MissingData
    /\ flow.tokenCalls = 0
    /\ authUi.error = MissingData.error

(***************************************************************************)
(* Claims about the authorization URL (checked under SpecAuth)             *)
(***************************************************************************)
\* C21: in every authorization URL that getAuthorizationUrl returned (the
\* paste-the-code component keeps it in authUrl; its state parameter is the
\* verifier), code_challenge_method names the way code_challenge was derived
\* from the verifier: S256 for the hash, plain for the verifier itself.
C21_ChallengeMethodMatchesDerivation ==
    authUi.authUrl # NoUrl =>
        \/ /\ authUi.authUrl.code_challenge_method = "S256"
           /\ authUi.authUrl.code_challenge = Sha256(authUi.authUrl.state)
        \/ /\ authUi.authUrl.code_challenge_method = "plain"
           /\ authUi.authUrl.code_challenge = authUi.authUrl.state

(***************************************************************************)
(* Claims about failures in the chat widget (checked under SpecChat)       *)
(***************************************************************************)
\* C22: when the POST of an accepted send returns non-2xx or throws, the
\* mounted widget sets isLoading to false, appends exactly one assistant
\* message 'Error: ...' at the end of the transcript (after the user
\* message, which stays where it was, like every other message), calls
\* onError exactly once, schedules no fallback poll and issues no request,
\* and leaves sessionId unchanged.
C22_FailedSend ==
    [][(lastOp' = "postResponse" /\ lastArg' # "ok" /\ mounted)
       => /\ ~isLoading'
          /\ Len(messages') = Len(messages) + 1
          /\ SubSeq(messages', 1, Len(messages)) = messages
          /\ messages'[Len(messages')].role = "assistant"
          /\ messages'[Len(messages')].content \in
                {<<"Error: Failed to send message: status">>,
                 <<"Error: Failed to fetch">>}
          /\ onErrors' = onErrors + 1
          /\ timers' = timers /\ polls' = polls
          /\ Len(posts') = Len(posts) - 1 /\ creating' = creating
          /\ sessionId' = sessionId /\ sessionId # NullId]_vars

\* The POST of the only send has just failed: the transcript is the user
\* message followed by the error message, and the widget is session-active.
C22_Witness ==
    /\ lastOp = "postResponse" /\ lastArg = "non2xx"
    /\ mounted
    /\ Len(messages) = 2
    /\ messages[1].role = "user" /\ messages[1].content = <<"h">>
    /\ messages[2].role = "assistant"
    /\ messages[2].content = <<"Error: Failed to send message: status">>
    /\ SessionActive
    /\ onErrors = 1 /\ timers = <<>> /\ polls = <<>>

\* C23: when session creation fails (non-2xx answer, network error or an
\* unreadable body), sessionId stays what it was (null in no-session), no
\* EventSource is opened or closed, onError is called exactly once and one
\* assistant error message is appended to the transcript of the mounted
\* widget; a createSession that succeeds in no-session moves the mounted
\* widget to session-active.
C23_FailedCreateSession ==
    [][/\ (lastOp' = "createSessionResponse" /\ lastArg' # "ok")
          => /\ sessionId' = sessionId
             /\ sources' = sources /\ eventSourceRef' = eventSourceRef
             /\ onErrors' = onErrors + 1
             /\ mounted
                => /\ Len(messages') = Len(messages) + 1
                   /\ SubSeq(messages', 1, Len(messages)) = messages
                   /\ messages'[Len(messages')].role = "assistant"
                   /\ messages'[Len(messages')].content =
                          <<"Unable to connect to OpenCode server">>
             /\ creating' = creating - 1 /\ posts' = posts
             /\ timers' = timers /\ polls' = polls
       /\ (lastOp' = "createSessionResponse" /\ lastArg' = "ok"
           /\ mounted /\ NoSession)
          => SessionActive']_vars

\* The createSession of the mount effect failed, the widget stayed in
\* no-session with its error message, and the createSession of a Reconnect
\* click has just succeeded.
C23_Witness ==
    /\ lastOp = "createSessionResponse" /\ lastArg = "ok"
    /\ mounted
    /\ onErrors = 1
    /\ Len(messages) = 1 /\ messages[1].role = "assistant"
    /\ SessionActive
    /\ Len(sources) = 1 /\ sources[1].state = "open"
    /\ creating = 0

(***************************************************************************)
(* Claims about storing the credentials (checked under SpecAuth)           *)
(***************************************************************************)
\* The exchange result carries an API key / the full token triple.
HasKey(r) == r.key \notin {Undefined, ""}
HasTriple(r) ==
    /\ r.refresh \notin {Undefined, ""}
    /\ r.access \notin {Undefined, ""}
    /\ r.expires.kind = "num" /\ r.expires.val # 0

\* C24: completeOAuthFlow returns true exactly when exchangeCode returned
\* success and the PUT to /api/opencode/auth/anthropic returned 2xx;
\* storeCredentials sends exactly one PUT, with body {type: api, key} for a
\* result with a key and {type: oauth, refresh, access, expires} for one
\* with the three token fields, and sends nothing and returns false for a
\* failed result and for one with neither.
C24_StoreCredentials ==
    LET r == flow.exchange IN
    /\ flow.putCalls <= 1
    /\ flow.oauthDone = "true" <=> (r.type = "success" /\ flow.putOut = "ok")
    /\ r.type # "pending" =>
         IF r.type = "success" /\ HasKey(r)
         THEN /\ flow.putCalls = 1
              /\ flow.putBody = [type |-> "api", key |-> r.key,
                                 refresh |-> Undefined, access |-> Undefined,
                                 expires |-> JsUndef]
         ELSE IF r.type = "success" /\ HasTriple(r)
         THEN /\ flow.putCalls = 1
              /\ flow.putBody = [type |-> "oauth", key |-> Undefined,
                                 refresh |-> r.refresh, access |-> r.access,
                                 expires |-> r.expires]
         ELSE /\ flow.putCalls = 0
              /\ flow.oauthDone = "false"

\* The PUT with the token triple of a Claude Pro/Max login has returned 2xx
\* and completeOAuthFlow has returned true.
C24_Witness ==
    /\ lastOp = "putResponse" /\ lastArg = "ok"
    /\ flow.exchange.type = "success"
    /\ flow.putBody.type = "oauth"
    /\ flow.putBody.refresh = "r" /\ flow.putBody.access = "a"
    /\ flow.putCalls = 1
    /\ flow.oauthDone = "true"

(***************************************************************************)
(* Claims about the events of the chat widget (checked under SpecChat)     *)
(***************************************************************************)
\* The event's data is not valid JSON, or it passes none of the three
\* session tests for session sid.
NoSessionTest(e, sid) ==
    \/ ~e.valid
    \/ /\ e.sessionID # sid
       /\ e.infoId = UndefinedText \/ SubSeq(e.infoId, 1, Len(sid)) # sid
       /\ \/ e.messageID = UndefinedText
          \/ \A k \in 1..Len(e.messageID) :
                SubSeq(e.messageID, k, k + Len(sid) - 5) # SubSeq(sid, 5, Len(sid))

\* C25: an SSE event whose data is not valid JSON, or that passes none of
\* the three session tests of the source's session, leaves the transcript,
\* isLoading and sessionId unchanged and triggers no poll, at once or by a
\* timer.
C25_UnmatchedEventIgnored ==
    [][lastOp' = "onmessage"
       => \A i \in 1..Len(sources), e \in SseEvents :
             (/\ sources[i].state = "open"
              /\ NoSessionTest(e, sources[i].sid)
              /\ OnMessage(i, e))
             => UNCHANGED <<messages, isLoading, sessionId, polls, timers>>]_vars

\* An event of another session has just been ignored while the widget is
\* awaiting a reply.
C25_Witness ==
    /\ lastOp = "onmessage" /\ lastArg = "ignored"
    /\ mounted /\ AwaitingReply
    /\ messages # <<>>
    /\ polls = <<>> /\ timers = <<>>

\* C26: the transcript never holds two assistant messages with the same id,
\* whatever the interleaving of message.part.updated events, message.created
\* and message.updated events and message-list poll results.
C26_NoDuplicateAssistantIds ==
    \A i, j \in 1..Len(messages) :
        (/\ messages[i].role = "assistant"
         /\ messages[j].role = "assistant"
         /\ messages[i].id = messages[j].id)
        => i = j

\* The fallback poll of the first send has run and a message.part.updated
\* event has then extended the assistant message the poll had put in the
\* transcript: there is one message with its id.
C26_Witness ==
    /\ lastOp = "onmessage" /\ lastArg = "message.part.updated"
    /\ Len(turns) = 1 /\ turns[1].poll = "done"
    /\ \E i \in 1..Len(messages) :
          /\ messages[i].id = FirstReply
          /\ messages[i].role = "assistant"
          /\ messages[i].content = ResponseReceived \o <<"x">>

\* The content of the message with this id in a transcript (empty when the
\* transcript has no such message).
ContentOf(msgs, id) ==
    IF \E k \in 1..Len(msgs) : msgs[k].id = id
    THEN msgs[CHOOSE k \in 1..Len(msgs) : msgs[k].id = id].content
    ELSE <<>>

\* No poll can have written an assistant message, and the message with this
\* id, if the transcript has it, holds texts of part events only.
OnlyPartEvents(id) ==
    /\ \A sid \in SessionIds : ~HasAssistant(srvMsgs[sid])
    /\ \A k \in 1..Len(ContentOf(messages, id)) :
          <<ContentOf(messages, id)[k]>> # ResponseReceived

\* C27: while only matching message.part.updated events have written the
\* assistant message with some id, its content is the concatenation, in
\* arrival order, of the texts of those events: each such event adds its
\* text to the end of the content.
C27_PartsConcatenated ==
    [][lastOp' = "onmessage"
       => \A i \in 1..Len(sources), e \in SseEvents :
             (/\ mounted
              /\ sources[i].state = "open"
              /\ ~NoSessionTest(e, sources[i].sid)
              /\ e.type = "message.part.updated"
              /\ e.messageID # UndefinedText
              /\ OnlyPartEvents(e.messageID)
              /\ OnMessage(i, e))
             => ContentOf(messages', e.messageID) =
                    ContentOf(messages, e.messageID) \o e.text]_vars

\* The ids of the assistant messages the server stored as the reply to send j.
RepliesTo(j) ==
    { srvMsgs[turns[j].sid][p].id :
        p \in { q \in 1..Len(srvMsgs[turns[j].sid]) :
                  /\ srvMsgs[turns[j].sid][q].role = "assistant"
                  /\ srvMsgs[turns[j].sid][q].replyTo = turns[j].userPos } }

\* The replies to the sends made before send k.
EarlierReplyIds(k) == UNION { RepliesTo(j) : j \in 1..(k - 1) }

\* The message id an event carries.
EventMsgId(e) == IF e.type = "message.part.updated" THEN e.messageID ELSE e.id

\* C28: while a send is awaiting its reply, isLoading becomes false only
\* when the session has gone idle, when that send's POST has failed, or when
\* an event or a poll result has brought an assistant message that is not
\* the reply to an earlier send; an event or a poll result that carries only
\* replies to earlier sends does not end awaiting-reply.
C28_AwaitingEndsOnlyOnOwnReply ==
    [][(mounted /\ turns # <<>> /\ isLoading /\ ~isLoading')
       => \/ lastOp' = "onmessage" /\ lastArg' = "session.idle"
          \/ /\ lastOp' = "postResponse"
             /\ turns[Len(turns)].post # "failed"
             /\ turns'[Len(turns)].post = "failed"
          \/ /\ lastOp' = "onmessage"
             /\ \E i \in 1..Len(sources), e \in SseEvents :
                   /\ e.type \in {"message.part.updated", "message.updated",
                                  "message.created"}
                   /\ EventMsgId(e) \notin EarlierReplyIds(Len(turns))
                   /\ OnMessage(i, e)
          \/ /\ lastOp' = "pollResponse"
             /\ \E i \in 1..Len(polls) :
                   /\ PollResponse(i, "ok")
                   /\ \E q \in 1..Len(srvMsgs[polls[i].sid]) :
                         /\ srvMsgs[polls[i].sid][q].role = "assistant"
                         /\ srvMsgs[polls[i].sid][q].id \notin
                                EarlierReplyIds(Len(turns))]_vars

\* The ids of the assistant messages the server holds.
ServerAssistantIds ==
    UNION { { srvMsgs[sid][p].id :
                p \in { q \in 1..Len(srvMsgs[sid]) :
                          srvMsgs[sid][q].role = "assistant" } } :
            sid \in SessionIds }

\* C29: clearChat empties the transcript and leaves sessionId and the open
\* EventSource unchanged, and the result of a fallback poll that was already
\* under way when the chat was cleared puts back no assistant message the
\* server held before the clear.
C29_ClearedStaysCleared ==
    [][/\ lastOp' = "clearChat"
          => /\ messages' = <<>>
             /\ sessionId' = sessionId
             /\ eventSourceRef' = eventSourceRef
             /\ sources' = sources
       /\ (mounted /\ lastOp = "clearChat")
          => \A i \in 1..Len(polls) :
                (polls[i].turn > 0 /\ PollResponse(i, "ok"))
                => \A k \in 1..Len(messages') :
                      ~(/\ messages'[k].role = "assistant"
                        /\ messages'[k].id \in ServerAssistantIds)]_vars

\* The send whose user message stands at index u of the transcript: the
\* user messages of the transcript are those of the latest sends, in order.
TurnOfUser(msgs, n, u) ==
    n - Cardinality({ v \in (u + 1)..Len(msgs) : msgs[v].role = "user" })

\* C30: when an event or a poll result puts the reply the server stored for
\* a send into the transcript, the reply stands after that send's user
\* message and before the user message of every later send.
C30_ConversationOrder ==
    [][mounted
       => \A j \in 1..Len(turns) : \A id \in RepliesTo(j) :
             (FindIndex(messages, id) = 0 /\ FindIndex(messages', id) > 0)
             => \A u \in 1..Len(messages') :
                   messages'[u].role = "user"
                   => /\ TurnOfUser(messages', Len(turns'), u) = j
                         => u < FindIndex(messages', id)
                      /\ TurnOfUser(messages', Len(turns'), u) > j
                         => FindIndex(messages', id) < u]_vars

====
